---- MODULE Spec2Model ----
(***************************************************************************)
(* Model of the voter-list extraction pipeline (src/voter_list_ocr.py):    *)
(* the voter-ID recognizer and normalizer, the adaptive batch scheduler    *)
(* with its resource monitor, the incremental sink, the sequence validator *)
(* and the context field extractor.                                        *)
(*                                                                         *)
(* A text is a sequence of one-character strings.  Devanagari digits are   *)
(* written "dv0" .. "dv9"; the double danda is "dd".                       *)
(***************************************************************************)
EXTENDS Integers, Sequences, FiniteSets, TLC

VARIABLES
    \* ---- voter-ID recognizer (parse_voter_info) ----
    text,                   \* the matched candidates of the page being parsed
    voters,                 \* records returned by the last parse_voter_info call
    page_stats,             \* the call's local counters (found, valid, rejected)
    total_patterns_found,
    total_valid_ids,
    total_rejected_ids,
    pcParse,
    \* ---- sequence validator ----
    all_sr_numbers,
    seq_result,
    pcSeq,
    \* ---- resource monitor ----
    current_batch_size,
    memory_usage_history,
    batch_performance_history,
    \* ---- image batch scheduler (extract_text_from_pdf_batched) ----
    total_pages,
    images,
    page_texts,
    batch_start,
    batch_end,
    batch_number,
    batch_pages,
    pending,                \* submitted page tasks not yet started
    running,                \* page tasks a pool worker is executing
    pool_size,              \* max_workers of the batch in progress
    results,                \* (page_num, text) in completion order
    ocr_out,                \* what the worker of each page returned
    completed,              \* page numbers in the order as_completed yielded them
    ocr_raised,             \* pages whose OCR raised inside process_single_image
    failed_ranges,          \* <<batch_start, batch_end>> of the batches that raised
    memory_mb,              \* the sample _process_image_batch chose its pool from (0 outside)
    pcBatch,
    \* ---- incremental sink (append_voters_to_excel) ----
    lock,                   \* the owner of self.lock, or NoThread
    excel,                  \* data rows of the workbook file at output_path
    total_records_saved,
    backup,                 \* rows written to the backup file
    tpc,                    \* each appending thread's position
    twb,                    \* each thread's in-memory workbook
    targ,                   \* the records each thread's call was given
    tfailed,                \* threads whose append took the except branch
    \* ---- context field extractor ----
    context,
    ctx_house_num,
    ctx_voter,
    ctx_prev,               \* the record an earlier call on the same inputs left
    pcCtx,
    \* ---- pipeline run (process_pdf_incrementally) ----
    run_i,                  \* pages of page_texts the page loop has taken
    all_voters_count,
    run_result,             \* what the call returned, or the exception that left it
    config,                 \* matadaar_sangh, election_type, ward_number of the object
    pcRun,
    \* ---- document-to-image conversion (extract_text_from_pdf_batched) ----
    conv_request,           \* dpi, start_page, end_page and the document's page count
    conv_log,               \* the convert_from_path calls made, with their outcome
    conv_images,            \* the page each image of the list shows
    conv_out,               \* what left the call: [] returned or the exception raised
    pcConv,
    \* ---- parallel page parsing (_process_text_batch) ----
    text_batch,             \* the page texts of the call, each the matches of a page
    task_pc,                \* where each page's process_single_text task is
    task_out,               \* what each task's parse_voter_info computed locally
    task_loaded,            \* the counter value a task read for its += in progress
    all_voters,             \* the records the coordinator collected from the futures
    pcText,
    \* ---- house/serial code of an entry (parse_voter_info) ----
    remaining_line,         \* line[match.end():], the characters after the ID match
    entry_house_num,        \* entry_info['house_num']: the raw code, or ''
    entry_voter,            \* the code fields of the record built for the entry
    pcHouse,
    \* ---- context window of an entry (parse_voter_info) ----
    page_lines,             \* text.split('\n'): each line stands for its own index
    entry_line_nums,        \* line_num of the entries of voter_entries, in order
    entry_idx,              \* entries the second loop has taken
    context_lines,          \* the window cut for the entry taken last
    pcWindow,
    \* ---- one uploaded job of the web application (app.py, app_production.py) ----
    job_app,                \* which application serves the job
    job_status,             \* processing_status[job_id]['status']
    job_progress,           \* processing_status[job_id]['progress']
    job_output_path,        \* 'output_path' in processing_status[job_id]
    pdf_exists,             \* os.path.exists(status['pdf_path'])
    out_rows,               \* data rows of the file at output_path, NoFile before it is written
    bg,                     \* the background threads started for the job
    served                  \* the responses of the data and download operations

parseVars == <<text, voters, page_stats, total_patterns_found, total_valid_ids,
               total_rejected_ids, pcParse>>
seqVars == <<all_sr_numbers, seq_result, pcSeq>>
monVars == <<current_batch_size, memory_usage_history, batch_performance_history>>
batchVars == <<total_pages, images, page_texts, batch_start, batch_end, batch_number,
               batch_pages, pending, running, pool_size, results, ocr_out, completed,
               ocr_raised, failed_ranges, memory_mb, pcBatch>>
sinkVars == <<lock, excel, total_records_saved, backup, tpc, twb, targ, tfailed>>
ctxVars == <<context, ctx_house_num, ctx_voter, ctx_prev, pcCtx>>
runVars == <<run_i, all_voters_count, run_result, config, pcRun>>
convVars == <<conv_request, conv_log, conv_images, conv_out, pcConv>>
textVars == <<text_batch, task_pc, task_out, task_loaded, all_voters, pcText>>
houseVars == <<remaining_line, entry_house_num, entry_voter, pcHouse>>
windowVars == <<page_lines, entry_line_nums, entry_idx, context_lines, pcWindow>>
jobVars == <<job_app, job_status, job_progress, job_output_path, pdf_exists, out_rows,
             bg, served>>
vars == <<parseVars, seqVars, monVars, batchVars, sinkVars, ctxVars, runVars, convVars, textVars, houseVars, windowVars, jobVars>>

(***************************************************************************)
(* Generic helpers.                                                        *)
(***************************************************************************)
Min2(a, b) == IF a <= b THEN a ELSE b
Max2(a, b) == IF a >= b THEN a ELSE b

SetMin(S) == CHOOSE x \in S : \A y \in S : x <= y
SetMax(S) == CHOOSE x \in S : \A y \in S : x >= y

\* one decimal digit as a character
DigitChar(d) ==
    CASE d = 0 -> "0" [] d = 1 -> "1" [] d = 2 -> "2" [] d = 3 -> "3" [] d = 4 -> "4"
      [] d = 5 -> "5" [] d = 6 -> "6" [] d = 7 -> "7" [] d = 8 -> "8" [] d = 9 -> "9"

RECURSIVE SumSeq(_)
SumSeq(s) == IF s = <<>> THEN 0 ELSE Head(s) + SumSeq(Tail(s))

RECURSIVE FilterOut(_, _)
\* str.replace(ch, ''): drop every occurrence of the characters in drop
FilterOut(s, drop) ==
    IF s = <<>> THEN <<>>
    ELSE IF Head(s) \in drop THEN FilterOut(Tail(s), drop)
         ELSE <<Head(s)>> \o FilterOut(Tail(s), drop)

LastN(s, n) == IF Len(s) <= n THEN s ELSE SubSeq(s, Len(s) - n + 1, Len(s))

NoThread == 0 - 1

(***************************************************************************)
(* Characters.                                                             *)
(***************************************************************************)
AsciiDigits == {"0", "1", "2", "3", "4", "5", "6", "7", "8", "9"}
DevDigits == {"dv0", "dv1", "dv2", "dv3", "dv4", "dv5", "dv6", "dv7", "dv8", "dv9"}
UpperLetters == {"A", "B", "C", "D", "E", "F", "G", "H", "I", "J", "K", "L", "M",
                 "N", "O", "P", "Q", "R", "S", "T", "U", "V", "W", "X", "Y", "Z"}

\* str.upper() on one character
Upper(c) ==
    CASE c = "s" -> "S" [] c = "m" -> "M" [] c = "e" -> "E" [] c = "f" -> "F"
      [] c = "l" -> "L" [] c = "j" -> "J" [] c = "i" -> "I" [] c = "z" -> "Z"
      [] c = "t" -> "T" [] OTHER -> c

\* self.devanagari_to_english
DevToEng(c) ==
    CASE c = "dv0" -> "0" [] c = "dv1" -> "1" [] c = "dv2" -> "2" [] c = "dv3" -> "3"
      [] c = "dv4" -> "4" [] c = "dv5" -> "5" [] c = "dv6" -> "6" [] c = "dv7" -> "7"
      [] c = "dv8" -> "8" [] c = "dv9" -> "9" [] OTHER -> c

convert_marathi_numbers_to_english(s) == [i \in 1..Len(s) |-> DevToEng(s[i])]

\* str.isdigit() on one character: true of every Unicode decimal digit
IsDigitPy(c) == c \in AsciiDigits \cup DevDigits

(***************************************************************************)
(* The five candidate patterns of parse_voter_info.  A candidate is the    *)
(* text of one regex match, so a pattern is a test of the whole candidate. *)
(***************************************************************************)
TolerantDigit == AsciiDigits \cup DevDigits \cup {"O", "I", "L", "Z", "S", "B", "C", "G"}

TolerantSuffix(s) ==
    /\ Len(s) \in {10, 11}
    /\ \A i \in 4..Len(s) : s[i] \in TolerantDigit

StrictSuffix(s) ==
    /\ Len(s) = 10
    /\ \A i \in 4..10 : s[i] \in AsciiDigits

pattern_smf(s) ==
    /\ TolerantSuffix(s)
    /\ s[1] \in {"S", "5", "$", "s"}
    /\ s[2] \in {"M", "dv0", "m", "6", "dv8", "dv6", "e", "E"}
    /\ s[3] \in {"F", "f", "M", "dv0", "m", "6", "dv8", "dv6"}

pattern_ljz(s) ==
    /\ TolerantSuffix(s)
    /\ s[1] \in {"L", "l", "I", "1"}
    /\ s[2] \in {"J", "j", "I", "i", "1"}
    /\ s[3] \in {"Z", "z", "2"}

pattern_itj(s) ==
    /\ TolerantSuffix(s)
    /\ s[1] \in {"I", "i", "L", "l", "1"}
    /\ s[2] \in {"T", "t", "7"}
    /\ s[3] \in {"J", "j", "I", "i", "1"}

pattern_generic(s) ==
    /\ StrictSuffix(s)
    /\ \A i \in 1..3 : s[i] \in UpperLetters

pattern_flexible(s) ==
    /\ StrictSuffix(s)
    /\ \A i \in 1..3 : s[i] \in UpperLetters \cup AsciiDigits

MatchesAnyPattern(s) ==
    \/ pattern_smf(s)
    \/ pattern_ljz(s)
    \/ pattern_itj(s)
    \/ pattern_generic(s)
    \/ pattern_flexible(s)

(***************************************************************************)
(* Normalization of one candidate (parse_voter_info, the loop body).       *)
(***************************************************************************)
\* .replace('$', 'S').replace(dd, '').replace(dv0, '0').replace(' ', '')
CleanMisrecognitions(s) ==
    LET r1 == [i \in 1..Len(s) |-> IF s[i] = "$" THEN "S" ELSE s[i]]
        r2 == FilterOut(r1, {"dd"})
        r3 == [i \in 1..Len(r2) |-> IF r2[i] = "dv0" THEN "0" ELSE r2[i]]
    IN  FilterOut(r3, {" "})

\* the prefix rules, applied in the order of the code
CleanPrefix(prefix) ==
    LET p1 == IF prefix[1] \in {"5", "$"} THEN <<"S", prefix[2], prefix[3]>> ELSE prefix
        p2 == IF p1[2] \in {"8", "6", "0", "5"} THEN <<p1[1], "M", p1[3]>> ELSE p1
        p3 == IF p2[1] \in {"I", "1"} THEN <<"L", p2[2], p2[3]>> ELSE p2
        p4 == IF p3[2] \in {"I", "1", "i"} THEN <<p3[1], "J", p3[3]>> ELSE p3
        p5 == IF p4[3] \in {"2"} THEN <<p4[1], p4[2], "Z">> ELSE p4
        p6 == IF p5[1] \in {"L", "1", "l"} /\ p5[2] \in {"T", "7", "t"}
              THEN <<"I", "T", p5[3]>> ELSE p5
    IN  p6

\* one character of the chained digit replacements
CleanDigitChar(c) ==
    CASE c = "O" -> "0" [] c = "I" -> "1" [] c = "l" -> "1" [] c = "Z" -> "2"
      [] c = "S" -> "5" [] c = "B" -> "8" [] c = "G" -> "6" [] c = "C" -> "0"
      [] OTHER -> c

CleanDigits(digits) == [i \in 1..Len(digits) |-> CleanDigitChar(digits[i])]

\* the candidate after upper-casing, numeral conversion and the correction rules
NormalizeId(raw) ==
    LET u == [i \in 1..Len(raw) |-> Upper(raw[i])]
        e == convert_marathi_numbers_to_english(u)
        c == CleanMisrecognitions(e)
    IN  IF Len(c) >= 10
        THEN CleanPrefix(SubSeq(c, 1, 3)) \o CleanDigits(SubSeq(c, 4, Len(c)))
        ELSE c

\* EnsureLength without the truncation of a longer candidate
EnsureLengthNoTruncate(id) ==
    IF Len(id) < 10 THEN <<>> ELSE id

\* "Ensure exactly 10 characters": the truncated id, or <<>> for a rejection
EnsureLength(id) ==
    IF Len(id) > 10 THEN SubSeq(id, 1, 10)
    ELSE IF Len(id) < 10 THEN <<>>
    ELSE id

MinDigits == 5

DigitCount(numeric_part) ==
    Cardinality({i \in 1..Len(numeric_part) : IsDigitPy(numeric_part[i])})

\* the validation of the numeric part
EnoughDigits(id) == ~ (DigitCount(SubSeq(id, 4, Len(id))) < MinDigits)

\* the accepted voter id of a candidate, or <<>> when the candidate is rejected
AcceptedId(raw) ==
    LET id == EnsureLength(NormalizeId(raw))
    IN  IF id = <<>> THEN <<>>
        ELSE IF EnoughDigits(id) THEN id
        ELSE <<>>


(***************************************************************************)
(* Context field extractor: _extract_voter_details_from_context.  A        *)
(* context line is the house codes the pattern \d+/\d+/\d+ finds on it, in *)
(* order, and, when it carries a field's keywords, the occurrences the     *)
(* field's pattern finds on it.  Codes are separated by other text, so a   *)
(* code is on the line as a substring exactly when it is a substring of    *)
(* one of the line's codes.                                                *)
(***************************************************************************)
RECURSIVE DigitSeq(_)
\* the decimal characters of a non-negative integer
DigitSeq(n) ==
    IF n < 10 THEN <<DigitChar(n)>> ELSE DigitSeq(n \div 10) \o <<DigitChar(n % 10)>>

\* the text of the house code a/b/c
CodeText(code) ==
    DigitSeq(code[1]) \o <<"/">> \o DigitSeq(code[2]) \o <<"/">> \o DigitSeq(code[3])

\* sub in s, on character sequences
IsSubstring(sub, s) ==
    \E i \in 1..(Len(s) - Len(sub) + 1) : SubSeq(s, i, i + Len(sub) - 1) = sub

\* house_num in line
HouseNumInLine(house_num, line) ==
    \E k \in 1..Len(line.codes) : IsSubstring(CodeText(house_num), CodeText(line.codes[k]))

\* the first context line the column search stops at, 0 when there is none
ColumnLine(lines, house_num) ==
    IF house_num # <<>> /\ \E k \in 1..Len(lines) : HouseNumInLine(house_num, lines[k])
    THEN SetMin({k \in 1..Len(lines) : HouseNumInLine(house_num, lines[k])})
    ELSE 0

\* voter_column: the first occurrence on that line equal to house_num, else 0
VoterColumn(lines, house_num) ==
    LET k == ColumnLine(lines, house_num)
    IN  IF k = 0 THEN 0
        ELSE LET codes == lines[k].codes
                 equal == {i \in 1..Len(codes) : codes[i] = house_num}
             IN  IF equal = {} THEN 0 ELSE SetMin(equal) - 1

NoValue == <<>>

\* matches[min(voter_column, len(matches) - 1)]: the last occurrence stands in
\* for a column the line does not have
SelectedOrLast(lines, label, column) ==
    LET carrying == {k \in 1..Len(lines) : lines[k].label = label}
    IN  IF carrying = {} THEN NoValue
        ELSE LET matches == lines[SetMin(carrying)].matches
             IN  IF Len(matches) > column THEN matches[column + 1]
                 ELSE IF matches # <<>> THEN matches[Len(matches)]
                 ELSE NoValue

\* matches[voter_column] on the first line carrying the field's keywords
Selected(lines, label, column) ==
    LET carrying == {k \in 1..Len(lines) : lines[k].label = label}
    IN  IF carrying = {} THEN NoValue
        ELSE LET matches == lines[SetMin(carrying)].matches
             IN  IF Len(matches) > column THEN matches[column + 1] ELSE NoValue

\* the gender written for a matched gender text, NoValue when neither
\* alternative of the two gender patterns matches
GenderOf(gender_text) ==
    CASE gender_text = "pu" -> <<"purush">>
      [] gender_text = "purush" -> <<"purush">>
      [] gender_text = "stri" -> <<"stri">>
      [] gender_text = "mahila" -> <<"stri">>
      [] OTHER -> NoValue

\* an extractor that adds the selected name to what the record holds
ExtractAccumulates(lines, voter, house_num) ==
    LET name == Selected(lines, "name", VoterColumn(lines, house_num))
    IN  [voter EXCEPT !.Name = voter.Name \o name]

\* the record after the call: a field is written only when its occurrence
\* at voter_column exists
ExtractVoterDetails(lines, voter, house_num) ==
    LET column == VoterColumn(lines, house_num)
        name == Selected(lines, "name", column)
        father == Selected(lines, "father", column)
        house == Selected(lines, "house", column)
        pair == Selected(lines, "age_gender", column)
    IN  [voter EXCEPT
           !.Name = IF name # NoValue THEN name ELSE @,
           !.FatherName = IF father # NoValue THEN father ELSE @,
           !.HouseNo = IF house # NoValue THEN house ELSE @,
           !.Age = IF pair # NoValue THEN convert_marathi_numbers_to_english(pair[1])
                   ELSE @,
           !.Gender = IF pair # NoValue /\ GenderOf(pair[2]) # NoValue
                      THEN GenderOf(pair[2]) ELSE @]

\* the record parse_voter_info hands to the extractor: the five fields empty
BlankVoter ==
    [Name |-> NoValue, FatherName |-> NoValue, HouseNo |-> NoValue,
     Age |-> NoValue, Gender |-> NoValue]

ExtractFromContext ==
    /\ pcCtx = "ready"
    /\ ctx_voter' = ExtractVoterDetails(context, ctx_voter, ctx_house_num)
    /\ pcCtx' = "done"
    /\ UNCHANGED <<context, ctx_house_num, ctx_prev>>

\* the call again, on the record the first call left
ExtractAgainOnOutput ==
    /\ pcCtx = "done"
    /\ ctx_prev' = ctx_voter
    /\ ctx_voter' = ExtractVoterDetails(context, ctx_voter, ctx_house_num)
    /\ pcCtx' = "again"
    /\ UNCHANGED <<context, ctx_house_num>>

\* a second call with the same context and house code on a fresh record
ExtractOnFreshRecord ==
    /\ pcCtx = "done"
    /\ ctx_prev' = ctx_voter
    /\ ctx_voter' = ExtractVoterDetails(context, BlankVoter, ctx_house_num)
    /\ pcCtx' = "fresh"
    /\ UNCHANGED <<context, ctx_house_num>>


(***************************************************************************)
(* Context windows of the model: one or two rows of house codes followed  *)
(* by the four field lines of a row of up to MaxColumns voters.            *)
(***************************************************************************)
MaxColumns == 3
CtxCodes == {<<217, 134, 10>>, <<217, 134, 11>>, <<217, 134, 12>>, <<217, 134, 110>>}

RECURSIVE SeqsUpTo(_, _)
\* the non-empty sequences over S of length at most n
SeqsUpTo(S, n) ==
    IF n = 0 THEN {}
    ELSE LET shorter == SeqsUpTo(S, n - 1)
         IN  {<<x>> : x \in S} \cup shorter \cup {Append(q, x) : q \in shorter, x \in S}

CodeLine(codes) == [codes |-> codes, label |-> "none", matches |-> <<>>]

GenderTexts == <<"pu", "other", "stri", "mahila">>
AgeTexts == <<<<"dv4", "dv5">>, <<"3", "dv2">>, <<"dv6", "1">>, <<"2", "8">>>>

\* the i-th occurrence of a field on its line
Occurrence(label, i) ==
    IF label = "age_gender" THEN <<AgeTexts[i], GenderTexts[i]>> ELSE <<label, i>>

FieldLine(label, n) ==
    [codes |-> <<>>, label |-> label, matches |-> [i \in 1..n |-> Occurrence(label, i)]]

FieldLines(n) ==
    <<FieldLine("name", n), FieldLine("father", n), FieldLine("house", n),
      FieldLine("age_gender", n)>>

CodeRows == {CodeLine(codes) : codes \in SeqsUpTo(CtxCodes, MaxColumns)}

Contexts ==
    {<<r>> \o FieldLines(n) : r \in CodeRows, n \in 1..MaxColumns}
    \cup {<<r1, r2>> \o FieldLines(MaxColumns) :
             r1 \in {r \in CodeRows : Len(r.codes) = 1}, r2 \in CodeRows}

(***************************************************************************)
(* Candidate texts the model feeds to the recognizer: every prefix over    *)
(* PrefixChars with a few suffixes, and a few prefixes with every suffix   *)
(* that varies its first MaxVar characters, kept when a pattern matches.   *)
(***************************************************************************)
MaxVar == 2

PrefixChars == {"S", "5", "$", "s", "M", "dv0", "m", "6", "dv8", "dv6", "e", "E",
                "F", "f", "L", "l", "I", "1", "J", "j", "i", "Z", "z", "2",
                "T", "t", "7", "A", "0", "8"}
SuffixChars == {"1", "7", "dv3", "O", "L", "S"}

Prefixes == {<<a, b, c>> : a \in PrefixChars, b \in PrefixChars, c \in PrefixChars}
BasePrefixes == {<<"S", "M", "F">>, <<"L", "J", "Z">>, <<"I", "T", "J">>, <<"A", "B", "C">>}

BaseSuffixes == {<<"1", "2", "3", "4", "5", "6", "7">>,
                 <<"1", "2", "3", "4", "5", "6", "7", "8">>,
                 <<"L", "L", "L", "1", "2", "3", "4">>}

Fill(n, lead) == [i \in 1..n |-> IF i <= 2 THEN lead ELSE "1"]

Suffixes ==
    LET heads == [1..MaxVar -> SuffixChars]
        sevens == {h \o Fill(7 - MaxVar, f) : h \in heads, f \in {"1", "L"}}
    IN  sevens \cup {s \o <<c>> : s \in sevens, c \in SuffixChars}

Candidates ==
    {s \in {p \o x : p \in Prefixes, x \in BaseSuffixes}
             \cup {p \o x : p \in BasePrefixes, x \in Suffixes} :
        MatchesAnyPattern(s)}

\* house/serial codes found after a candidate on its line; <<>> is "none found"
HouseCodes == {<<>>, <<217, 134, 10>>, <<217, 134, 12>>}

\* candidates of the pages that hold several matches
FewCandidates ==
    {<<"S", "M", "F", "1", "2", "3", "4", "5", "6", "7">>,
     <<"5", "m", "f", "O", "dv2", "3", "4", "5", "6", "7", "8">>,
     <<"L", "J", "Z", "L", "L", "L", "1", "2", "3", "4">>}

MaxMatches == 2

\* a match on a page whose lines carry no field keywords
Match(raw, house) == [raw |-> raw, house_num |-> house, context |-> <<>>]

\* a match together with the context window cut around its line
MatchIn(raw, house, window) == [raw |-> raw, house_num |-> house, context |-> window]

\* context windows of a parsed entry: every field line with three
\* occurrences, with one occurrence, the parent and age lines absent, and a
\* name line whose pattern finds nothing
ParseCodes == CodeLine(<<<<217, 134, 10>>, <<217, 134, 11>>, <<217, 134, 12>>>>)
ParseWindows ==
    {<<ParseCodes>> \o FieldLines(3),
     <<ParseCodes>> \o FieldLines(1),
     <<ParseCodes, FieldLine("name", 3), FieldLine("house", 3)>>,
     <<ParseCodes, FieldLine("name", 0), FieldLine("age_gender", 3)>>}

\* the pages of the model: one match of any candidate, a few matches, or
\* one match inside a context window
Pages ==
    {<<Match(c, <<>>)>> : c \in Candidates}
    \cup UNION {[1..n -> {Match(c, h) : c \in FewCandidates, h \in HouseCodes}] :
                   n \in 0..MaxMatches}
    \cup {<<MatchIn(<<"S", "M", "F", "1", "2", "3", "4", "5", "6", "7">>, h, w)>> :
              h \in HouseCodes, w \in ParseWindows}

(***************************************************************************)
(* parse_voter_info                                                        *)
(***************************************************************************)
\* the record built for one accepted entry
VoterRecord(voter_id, house_num) ==
    [SrNo |-> IF Len(house_num) = 3 THEN <<house_num[3]>> ELSE <<>>,
     VoterID |-> voter_id,
     Name |-> NoValue,
     FatherName |-> NoValue,
     ColumnX |-> house_num,
     HouseNo |-> NoValue,
     Age |-> NoValue,
     Gender |-> NoValue,
     MatadaarSangh |-> config.matadaar_sangh,
     ElectionType |-> config.election_type,
     WardNumber |-> config.ward_number,
     MatadaarSangh2 |-> IF Len(house_num) = 3 THEN <<house_num[1]>> ELSE <<>>,
     YadiNumber |-> IF Len(house_num) = 3 THEN <<house_num[2]>> ELSE <<>>,
     YadiSrNo |-> IF Len(house_num) = 3 THEN <<house_num[3]>> ELSE <<>>]

RECURSIVE ParseMatches(_, _)
\* the loop over the matches: acc is [entries, found, valid, rejected, sr]
ParseMatches(ms, acc) ==
    IF ms = <<>> THEN acc
    ELSE LET m == Head(ms)
             id == AcceptedId(m.raw)
             found == [acc EXCEPT !.found = @ + 1]
         IN  IF id = <<>>
             THEN ParseMatches(Tail(ms), [found EXCEPT !.rejected = @ + 1])
             ELSE ParseMatches(Tail(ms),
                     [found EXCEPT
                        !.valid = @ + 1,
                        !.entries = Append(@, [voter_id |-> id,
                                               house_num |-> m.house_num,
                                               context |-> m.context]),
                        !.sr = IF Len(m.house_num) = 3
                               THEN Append(@, m.house_num[3]) ELSE @])

\* the loop over voter_entries: the record of an entry, filled from its
\* context window
EntryRecord(entry) ==
    ExtractVoterDetails(entry.context, VoterRecord(entry.voter_id, entry.house_num),
                        entry.house_num)

\* the counters and entries of the match loop with the records of the
\* entry loop
WithRecords(acc) ==
    [voters |-> [i \in 1..Len(acc.entries) |-> EntryRecord(acc.entries[i])],
     found |-> acc.found, valid |-> acc.valid, rejected |-> acc.rejected, sr |-> acc.sr]

\* total_matches_found += 1 moved behind the validation: only accepted
\* candidates are counted as found
ParseResultCountsAccepted(ms) ==
    LET r == WithRecords(ParseMatches(ms, [entries |-> <<>>, found |-> 0, valid |-> 0,
                                           rejected |-> 0, sr |-> <<>>]))
    IN  [r EXCEPT !.found = r.valid]

ParseResult(ms) ==
    WithRecords(ParseMatches(ms, [entries |-> <<>>, found |-> 0, valid |-> 0,
                                  rejected |-> 0, sr |-> <<>>]))

ParseVoterInfo ==
    /\ pcParse = "ready"
    /\ \E r \in {ParseResult(text)} :
           /\ voters' = r.voters
           /\ page_stats' = [found |-> r.found, valid |-> r.valid, rejected |-> r.rejected]
           /\ total_patterns_found' = total_patterns_found + r.found
           /\ total_valid_ids' = total_valid_ids + r.valid
           /\ total_rejected_ids' = total_rejected_ids + r.rejected
           /\ all_sr_numbers' = all_sr_numbers \o r.sr
    /\ pcParse' = "parsed"
    /\ UNCHANGED <<text, seq_result, pcSeq, monVars, batchVars, sinkVars, ctxVars, runVars, convVars, textVars, houseVars, windowVars, jobVars>>


(***************************************************************************)
(* Incremental sink: append_voters_to_excel, one step per statement that   *)
(* another thread can observe.  The workbook file holds the header row     *)
(* written by initialize_excel_file and the data rows modelled by excel.   *)
(***************************************************************************)
NumThreads == 3

MainThread == 0
Workers == 1..NumThreads
Threads == {MainThread} \cup Workers

\* the header row initialize_excel_file writes
Headers ==
    <<"SrNo", "VoterID", "Name", "FatherName", "ColumnX", "HouseNo", "Age", "Gender",
      "MatadaarSangh", "ElectionType", "WardNumber", "MatadaarSangh2", "YadiNumber",
      "YadiSrNo">>

\* a row list that reads the age before the name
RowKeysAgeFirst ==
    <<"SrNo", "VoterID", "Age", "FatherName", "ColumnX", "HouseNo", "Name", "Gender",
      "MatadaarSangh", "ElectionType", "WardNumber", "MatadaarSangh2", "YadiNumber",
      "YadiSrNo">>

\* the keys append_voters_to_excel reads, in the order of its row list
RowKeys ==
    <<"SrNo", "VoterID", "Name", "FatherName", "ColumnX", "HouseNo", "Age", "Gender",
      "MatadaarSangh", "ElectionType", "WardNumber", "MatadaarSangh2", "YadiNumber",
      "YadiSrNo">>

\* voter.get(key, ''): a missing key reads as the empty string
Get(voter, key) == IF key \in DOMAIN voter THEN voter[key] ELSE NoValue

\* the cells of one record
Row(voter) == [i \in 1..Len(RowKeys) |-> Get(voter, RowKeys[i])]

RECURSIVE RowsOf(_)
RowsOf(vs) == IF vs = <<>> THEN <<>> ELSE <<Row(Head(vs))>> \o RowsOf(Tail(vs))

\* a lock that never blocks
LockNeverBlocks(t) == TRUE

\* "with self.lock": the lock can be taken only while nobody owns it
LockFree(t) == lock = NoThread

\* entry of the call; an empty list returns at once
CallAppend(t, recs) ==
    /\ tpc[t] = "idle"
    /\ targ' = [targ EXCEPT ![t] = recs]
    /\ tpc' = [tpc EXCEPT ![t] = IF recs = <<>> THEN "done" ELSE "wait"]

Acquire(t) ==
    /\ tpc[t] = "wait"
    /\ LockFree(t)
    /\ lock' = t
    /\ tpc' = [tpc EXCEPT ![t] = "load"]
    /\ UNCHANGED <<excel, total_records_saved, backup, twb, targ, tfailed>>

\* openpyxl.load_workbook: the thread's copy of the file, or an exception
LoadWorkbook(t) ==
    /\ tpc[t] = "load"
    /\ \/ /\ twb' = [twb EXCEPT ![t] = excel]
          /\ tpc' = [tpc EXCEPT ![t] = "append"]
       \/ /\ tpc' = [tpc EXCEPT ![t] = "except"]
          /\ UNCHANGED twb
    /\ UNCHANGED <<lock, excel, total_records_saved, backup, targ, tfailed>>

\* the rows are appended to the in-memory workbook; a bad cell raises midway
AppendRows(t) ==
    /\ tpc[t] = "append"
    /\ \/ /\ twb' = [twb EXCEPT ![t] = @ \o RowsOf(targ[t])]
          /\ tpc' = [tpc EXCEPT ![t] = "save"]
       \/ \E k \in 0..(Len(targ[t]) - 1) :
             /\ twb' = [twb EXCEPT ![t] = @ \o RowsOf(SubSeq(targ[t], 1, k))]
             /\ tpc' = [tpc EXCEPT ![t] = "except"]
    /\ UNCHANGED <<lock, excel, total_records_saved, backup, targ, tfailed>>

\* wb.save(self.output_path): the file becomes the workbook, or an exception
SaveWorkbook(t) ==
    /\ tpc[t] = "save"
    /\ \/ /\ excel' = twb[t]
          /\ tpc' = [tpc EXCEPT ![t] = "count"]
       \/ /\ tpc' = [tpc EXCEPT ![t] = "except"]
          /\ UNCHANGED excel
    /\ UNCHANGED <<lock, total_records_saved, backup, twb, targ, tfailed>>

\* self.total_records_saved += 1: a counter of calls, not of records
CountCalls(t) ==
    /\ tpc[t] = "count"
    /\ total_records_saved' = total_records_saved + 1
    /\ tpc' = [tpc EXCEPT ![t] = "exit"]
    /\ UNCHANGED <<lock, excel, backup, twb, targ, tfailed>>

\* self.total_records_saved += len(voters)
CountSaved(t) ==
    /\ tpc[t] = "count"
    /\ total_records_saved' = total_records_saved + Len(targ[t])
    /\ tpc' = [tpc EXCEPT ![t] = "exit"]
    /\ UNCHANGED <<lock, excel, backup, twb, targ, tfailed>>

\* an except branch whose failed backup write escapes to the caller
BackupAttemptPropagates(t) ==
    /\ tpc[t] = "except"
    /\ \/ /\ backup' = backup \o RowsOf(targ[t])
          /\ tpc' = [tpc EXCEPT ![t] = "exit"]
          /\ UNCHANGED lock
       \/ /\ UNCHANGED backup
          /\ tpc' = [tpc EXCEPT ![t] = "raised"]
          /\ lock' = NoThread
    /\ tfailed' = tfailed \cup {t}
    /\ UNCHANGED <<excel, total_records_saved, twb, targ>>

\* the except branch: the backup write succeeds or fails, nothing is raised
BackupAttempt(t) ==
    /\ tpc[t] = "except"
    /\ \/ backup' = backup \o RowsOf(targ[t])
       \/ UNCHANGED backup
    /\ tfailed' = tfailed \cup {t}
    /\ tpc' = [tpc EXCEPT ![t] = "exit"]
    /\ UNCHANGED <<lock, excel, total_records_saved, twb, targ>>

\* a lock released by hand on the success path only: a failed append keeps it
ReleaseOnSuccess(t) ==
    /\ tpc[t] = "exit"
    /\ lock' = IF t \in tfailed THEN lock ELSE NoThread
    /\ tpc' = [tpc EXCEPT ![t] = "done"]
    /\ UNCHANGED <<excel, total_records_saved, backup, twb, targ, tfailed>>

\* leaving the with block
Release(t) ==
    /\ tpc[t] = "exit"
    /\ lock' = NoThread
    /\ tpc' = [tpc EXCEPT ![t] = "done"]
    /\ UNCHANGED <<excel, total_records_saved, backup, twb, targ, tfailed>>

SinkStep(t) ==
    \/ Acquire(t)
    \/ LoadWorkbook(t)
    \/ AppendRows(t)
    \/ SaveWorkbook(t)
    \/ CountSaved(t)
    \/ BackupAttempt(t)
    \/ Release(t)

(***************************************************************************)
(* Initial values of each component.                                       *)
(***************************************************************************)
InitialBatchSize == 6
MinBatchSize == 2
MaxBatchSize == 10

ParseIdle ==
    /\ text = <<>>
    /\ voters = <<>>
    /\ page_stats = [found |-> 0, valid |-> 0, rejected |-> 0]
    /\ total_patterns_found = 0
    /\ total_valid_ids = 0
    /\ total_rejected_ids = 0
    /\ pcParse = "idle"

SeqIdle ==
    /\ all_sr_numbers = <<>>
    /\ seq_result = <<>>
    /\ pcSeq = "idle"

MonitorInit ==
    /\ current_batch_size = InitialBatchSize
    /\ memory_usage_history = <<>>
    /\ batch_performance_history = <<>>

BatchIdle ==
    /\ total_pages = 0
    /\ images = <<>>
    /\ page_texts = <<>>
    /\ batch_start = 0
    /\ batch_end = 0
    /\ batch_number = 1
    /\ batch_pages = {}
    /\ pending = <<>>
    /\ running = {}
    /\ pool_size = 0
    /\ results = <<>>
    /\ ocr_out = <<>>
    /\ completed = <<>>
    /\ ocr_raised = {}
    /\ failed_ranges = {}
    /\ memory_mb = 0
    /\ pcBatch = "idle"

SinkInit ==
    /\ lock = NoThread
    /\ excel = <<>>
    /\ total_records_saved = 0
    /\ backup = <<>>
    /\ tpc = [t \in Threads |-> "idle"]
    /\ twb = [t \in Threads |-> <<>>]
    /\ targ = [t \in Threads |-> <<>>]
    /\ tfailed = {}

CtxIdle ==
    /\ context = <<>>
    /\ ctx_house_num = <<>>
    /\ ctx_voter = <<>>
    /\ ctx_prev = <<>>
    /\ pcCtx = "idle"

\* the constructor's defaults for the three user inputs are ''
DefaultConfig == [matadaar_sangh |-> <<>>, election_type |-> <<>>, ward_number |-> <<>>]

\* None of Python, for an optional page number
None == 0

ConvIdle ==
    /\ conv_request = [dpi |-> 300, start_page |-> None, end_page |-> None, pages |-> 0]
    /\ conv_log = <<>>
    /\ conv_images = <<>>
    /\ conv_out = <<>>
    /\ pcConv = "idle"

RunIdle ==
    /\ config = DefaultConfig
    /\ run_i = 0
    /\ all_voters_count = 0
    /\ run_result = <<>>
    /\ pcRun = "idle"

TextIdle ==
    /\ text_batch = <<>>
    /\ task_pc = <<>>
    /\ task_out = <<>>
    /\ task_loaded = <<>>
    /\ all_voters = <<>>
    /\ pcText = "idle"

HouseIdle ==
    /\ remaining_line = <<>>
    /\ entry_house_num = <<>>
    /\ entry_voter = <<>>
    /\ pcHouse = "idle"

WindowIdle ==
    /\ page_lines = <<>>
    /\ entry_line_nums = <<>>
    /\ entry_idx = 0
    /\ context_lines = <<>>
    /\ pcWindow = "idle"

\* the thread of the job's first process request and the thread of a second
\* request for the same job
JobRuns == {1, 2}
NoFile == 0 - 1

\* a thread that no process request has started yet: its place in
\* process_pdf_background, the pages it has taken, the pages it has, the rows
\* of the workbook it loaded, the pages whose processing raised, and the
\* status it wrote last
IdleRun == [pc |-> "idle", i |-> 0, total |-> 0, wb |-> 0, raised |-> 0, wrote |-> "none"]

\* the entry upload_file writes for the job
JobUploaded ==
    /\ job_status = "uploaded"
    /\ job_progress = 0
    /\ job_output_path = FALSE
    /\ pdf_exists = TRUE
    /\ out_rows = NoFile
    /\ bg = [r \in JobRuns |-> IdleRun]
    /\ served = <<>>

JobIdle ==
    /\ job_app = "app"
    /\ JobUploaded

(***************************************************************************)
(* SpecParse: one page is parsed and its records are handed to the sink,   *)
(* as the page loop of process_pdf_incrementally does.                     *)
(***************************************************************************)
ParseInit ==
    /\ text \in Pages
    /\ voters = <<>>
    /\ page_stats = [found |-> 0, valid |-> 0, rejected |-> 0]
    /\ total_patterns_found = 0
    /\ total_valid_ids = 0
    /\ total_rejected_ids = 0
    /\ pcParse = "ready"
    /\ SeqIdle /\ MonitorInit /\ BatchIdle /\ SinkInit /\ CtxIdle /\ RunIdle /\ ConvIdle /\ TextIdle /\ HouseIdle /\ WindowIdle /\ JobIdle

\* "if voters: self.append_voters_to_excel(voters)"
SavePage ==
    /\ pcParse = "parsed"
    /\ IF voters = <<>>
       THEN /\ pcParse' = "done"
            /\ UNCHANGED sinkVars
       ELSE /\ CallAppend(MainThread, voters)
            /\ pcParse' = "saving"
            /\ UNCHANGED <<lock, excel, total_records_saved, backup, twb, tfailed>>
    /\ UNCHANGED <<text, voters, page_stats, total_patterns_found, total_valid_ids,
                   total_rejected_ids, seqVars, monVars, batchVars, ctxVars, runVars, convVars, textVars, houseVars, windowVars, jobVars>>

MainSinkStep ==
    /\ pcParse = "saving"
    /\ SinkStep(MainThread)
    /\ UNCHANGED <<parseVars, seqVars, monVars, batchVars, ctxVars, runVars, convVars, textVars, houseVars, windowVars, jobVars>>

PageDone ==
    /\ pcParse = "saving"
    /\ tpc[MainThread] = "done"
    /\ pcParse' = "done"
    /\ UNCHANGED <<text, voters, page_stats, total_patterns_found, total_valid_ids,
                   total_rejected_ids, seqVars, monVars, batchVars, sinkVars, ctxVars, runVars, convVars, textVars, houseVars, windowVars, jobVars>>

ParseNext ==
    \/ ParseVoterInfo
    \/ SavePage
    \/ MainSinkStep
    \/ PageDone

SpecParse == ParseInit /\ [][ParseNext]_vars


(***************************************************************************)
(* Claims about the recognizer, checked under SpecParse.                   *)
(***************************************************************************)
AsciiDigitCount(s) == Cardinality({i \in 1..Len(s) : s[i] \in AsciiDigits})

\* a candidate the recognizer has to reject: short after normalization, or
\* fewer than 5 digits among characters 4-10
MustReject(raw) ==
    LET n == NormalizeId(raw)
    IN  \/ Len(n) < 10
        \/ AsciiDigitCount(SubSeq(n, 4, 10)) < 5

AcceptedPositions == {i \in 1..Len(text) : ~ MustReject(text[i].raw)}

\* C1: every returned (and every persisted) record has a voter id of exactly
\* 10 characters with at least 5 digits among characters 4-10; a candidate
\* that is short or has fewer than 5 digits there is counted as rejected and
\* is neither returned nor persisted; a longer candidate is cut to 10.
C1_ValidatedIds ==
    pcParse # "ready" =>
        /\ \A i \in 1..Len(voters) :
              /\ Len(voters[i].VoterID) = 10
              /\ AsciiDigitCount(SubSeq(voters[i].VoterID, 4, 10)) >= 5
        /\ page_stats.rejected = Len(text) - Cardinality(AcceptedPositions)
        /\ total_rejected_ids = page_stats.rejected
        /\ Len(voters) = Cardinality(AcceptedPositions)
        /\ \A i \in AcceptedPositions :
              LET k == Cardinality({j \in AcceptedPositions : j <= i})
              IN  voters[k].VoterID = SubSeq(NormalizeId(text[i].raw), 1, 10)
        /\ \A r \in 1..Len(excel) : \E i \in 1..Len(voters) : excel[r] = Row(voters[i])

\* C1 witness: a page with a rejected candidate and an accepted 11-character
\* candidate has been parsed and its one record saved
C1_Witness ==
    /\ pcParse = "done"
    /\ Len(text) = 2
    /\ page_stats.rejected = 1
    /\ Len(voters) = 1
    /\ \E i \in 1..2 : Len(text[i].raw) = 11 /\ ~ MustReject(text[i].raw)
    /\ Len(excel) = 1

\* C2: every accepted voter id is 3 letters followed by 7 ASCII digits
C2_LettersThenDigits ==
    \A i \in 1..Len(voters) :
        /\ \A k \in 1..3 : voters[i].VoterID[k] \in UpperLetters
        /\ \A k \in 4..10 : voters[i].VoterID[k] \in AsciiDigits


(***************************************************************************)
(* SpecSink: NumThreads threads call append_voters_to_excel on one         *)
(* instance, each with its own records.                                    *)
(***************************************************************************)
RecordCounts == {1, 2}

ThreadRecords(t, n) == [k \in 1..n |-> VoterRecord(<<t, k>>, <<>>)]

SinkSpecInit ==
    /\ ParseIdle /\ SeqIdle /\ MonitorInit /\ BatchIdle /\ SinkInit /\ CtxIdle /\ RunIdle /\ ConvIdle /\ TextIdle /\ HouseIdle /\ WindowIdle /\ JobIdle

WorkerCall(t) ==
    /\ \E n \in RecordCounts : CallAppend(t, ThreadRecords(t, n))
    /\ UNCHANGED <<lock, excel, total_records_saved, backup, twb, tfailed>>
    /\ UNCHANGED <<parseVars, seqVars, monVars, batchVars, ctxVars, runVars, convVars, textVars, houseVars, windowVars, jobVars>>

WorkerStep(t) ==
    /\ SinkStep(t)
    /\ UNCHANGED <<parseVars, seqVars, monVars, batchVars, ctxVars, runVars, convVars, textVars, houseVars, windowVars, jobVars>>

SinkNext == \E t \in Workers : WorkerCall(t) \/ WorkerStep(t)

SpecSink == SinkSpecInit /\ [][SinkNext]_vars

InCriticalSection(t) == tpc[t] \in {"load", "append", "save", "count", "except", "exit"}

AllWorkersDone == \A t \in Workers : tpc[t] = "done"

RowCount(rows, r) == Cardinality({i \in 1..Len(rows) : rows[i] = r})

\* C4: when every thread has appended one record, the workbook holds exactly
\* one row per record whose append did not fail, none lost or duplicated
\* (NumThreads rows when no append failed), and the load-append-save region is
\* never entered by two threads at once.
C4_ConcurrentAppend ==
    /\ Cardinality({t \in Workers : InCriticalSection(t)}) <= 1
    /\ (AllWorkersDone /\ \A t \in Workers : Len(targ[t]) = 1) =>
          /\ \A t \in Workers \ tfailed : RowCount(excel, Row(targ[t][1])) = 1
          /\ \A t \in tfailed : RowCount(excel, Row(targ[t][1])) = 0
          /\ Len(excel) = NumThreads - Cardinality(tfailed)

\* C4 witness: all threads appended one record each, none failed
C4_Witness ==
    /\ AllWorkersDone
    /\ \A t \in Workers : Len(targ[t]) = 1
    /\ tfailed = {}
    /\ Len(excel) = NumThreads

RECURSIVE SumOver(_, _)
SumOver(S, f) ==
    IF S = {} THEN 0
    ELSE LET x == CHOOSE y \in S : TRUE IN f[x] + SumOver(S \ {x}, f)

Persisted == {t \in Threads : tpc[t] \in {"count", "exit", "done"} /\ t \notin tfailed}
Counted == {t \in Threads : tpc[t] \in {"exit", "done"} /\ t \notin tfailed}

\* the rows of t's call stand in the store, all of them and next to each other
HoldsAll(rows, t) ==
    \E i \in 0..(Len(rows) - Len(targ[t])) :
        SubSeq(rows, i + 1, i + Len(targ[t])) = RowsOf(targ[t])

HoldsNone(rows, t) ==
    \A k \in 1..Len(targ[t]) : RowCount(rows, Row(targ[t][k])) = 0

RECURSIVE IntToStr(_)
\* str(n) of a non-negative integer
IntToStr(n) == IF n < 10 THEN DigitChar(n) ELSE IntToStr(n \div 10) \o DigitChar(n % 10)

RECURSIVE SortedOf(_)
\* sorted(S) of a finite set of integers
SortedOf(S) == IF S = {} THEN <<>> ELSE <<SetMin(S)>> \o SortedOf(S \ {SetMin(S)})

RECURSIVE InsertSorted(_, _)
InsertSorted(x, s) ==
    IF s = <<>> THEN <<x>>
    ELSE IF x <= Head(s) THEN <<x>> \o s
    ELSE <<Head(s)>> \o InsertSorted(x, Tail(s))

RECURSIVE SortList(_)
\* sorted(list): duplicates are kept
SortList(s) == IF s = <<>> THEN <<>> ELSE InsertSorted(Head(s), SortList(Tail(s)))

Range(s) == {s[i] : i \in 1..Len(s)}

\* a sort that keeps the duplicates
SortedWithDuplicates(srs) == SortList(srs)

\* sorted(set(self.all_sr_numbers))
UniqueSorted(srs) == SortedOf(Range(srs))

\* one entry of missing_ranges
RenderRange(start, end) ==
    IF start = end THEN IntToStr(start)
    ELSE IntToStr(start) \o "-" \o IntToStr(end)

RECURSIVE FindGaps(_, _, _, _, _)
\* the loop "for expected in range(min_sr, max_sr + 1)" with its trailing case;
\* cms is current_missing_start, -1 for None
FindGaps(expected, max_sr, sorted_sr, cms, missing) ==
    IF expected > max_sr
    THEN IF cms # 0 - 1
         THEN Append(missing, RenderRange(cms, max_sr))
         ELSE missing
    ELSE IF expected \notin Range(sorted_sr)
         THEN FindGaps(expected + 1, max_sr, sorted_sr,
                       IF cms = 0 - 1 THEN expected ELSE cms, missing)
         ELSE IF cms # 0 - 1
              THEN FindGaps(expected + 1, max_sr, sorted_sr, 0 - 1,
                            Append(missing, RenderRange(cms, expected - 1)))
              ELSE FindGaps(expected + 1, max_sr, sorted_sr, cms, missing)

\* coverage_percent is actual_count / expected_count * 100, kept as the exact
\* fraction num / den
EmptySeqResult ==
    [min_sr |-> 0, max_sr |-> 0, missing_ranges |-> <<>>,
     coverage |-> [num |-> 0, den |-> 1]]

SequenceResult(srs) ==
    IF srs = <<>> THEN EmptySeqResult
    ELSE LET sorted_sr == UniqueSorted(srs)
             min_sr == sorted_sr[1]
             max_sr == sorted_sr[Len(sorted_sr)]
             expected_count == max_sr - min_sr + 1
             actual_count == Len(sorted_sr)
         IN  [min_sr |-> min_sr,
              max_sr |-> max_sr,
              missing_ranges |-> FindGaps(min_sr, max_sr, sorted_sr, 0 - 1, <<>>),
              coverage |-> IF expected_count > 0
                           THEN [num |-> actual_count * 100, den |-> expected_count]
                           ELSE [num |-> 0, den |-> 1]]

\* a validator that sorts the accumulated serial numbers in place
ValidateSortsInPlace ==
    /\ pcSeq = "ready"
    /\ seq_result' = SequenceResult(all_sr_numbers)
    /\ all_sr_numbers' = SortList(all_sr_numbers)
    /\ pcSeq' = "done"
    /\ UNCHANGED <<parseVars, monVars, batchVars, sinkVars, ctxVars, runVars, convVars, textVars, houseVars, windowVars, jobVars>>

ValidateSequenceAndFindGaps ==
    /\ pcSeq = "ready"
    /\ seq_result' = SequenceResult(all_sr_numbers)
    /\ pcSeq' = "done"
    /\ UNCHANGED <<all_sr_numbers, parseVars, monVars, batchVars, sinkVars, ctxVars, runVars, convVars, textVars, houseVars, windowVars, jobVars>>

(***************************************************************************)
(* SpecSeq: the state at the end of a run (serial numbers accumulated in   *)
(* any order, with repeats, their records saved), then the validation.     *)
(***************************************************************************)
MaxSr == 8

RECURSIVE Descending(_)
Descending(S) == IF S = {} THEN <<>> ELSE <<SetMax(S)>> \o Descending(S \ {SetMax(S)})

\* the serial-number lists of the model: any subset of 0..MaxSr, in ascending
\* or descending order, alone or followed by a repeat of one of its members
SrLists ==
    LET base == {SortedOf(S) : S \in SUBSET (0..MaxSr)}
                \cup {Descending(S) : S \in SUBSET (0..MaxSr)}
    IN  base \cup UNION {{Append(b, b[i]) : i \in {1, 2} \cap DOMAIN b} : b \in base}

RecordsOfSerials(srs) == [i \in 1..Len(srs) |-> VoterRecord(<<"id", i>>, <<217, 134, srs[i]>>)]

SeqSpecInit ==
    /\ all_sr_numbers \in SrLists
    /\ seq_result = <<>>
    /\ pcSeq = "ready"
    /\ ParseIdle /\ MonitorInit /\ BatchIdle /\ CtxIdle /\ RunIdle /\ ConvIdle /\ TextIdle /\ HouseIdle /\ WindowIdle /\ JobIdle
    /\ lock = NoThread
    /\ excel = RowsOf(RecordsOfSerials(all_sr_numbers))
    /\ total_records_saved = Len(all_sr_numbers)
    /\ backup = <<>>
    /\ tpc = [t \in Threads |-> "idle"]
    /\ twb = [t \in Threads |-> <<>>]
    /\ targ = [t \in Threads |-> <<>>]
    /\ tfailed = {}

SeqNext == ValidateSequenceAndFindGaps

SpecSeq == SeqSpecInit /\ [][SeqNext]_vars

\* the numerals, written out
Numerals == <<"0", "1", "2", "3", "4", "5", "6", "7", "8", "9", "10", "11", "12",
              "13", "14", "15", "16", "17", "18", "19", "20">>
Numeral(n) == Numerals[n + 1]

Collected == Range(all_sr_numbers)

\* the first members of the maximal runs of absent integers, and where a run ends
GapStarts == {a \in SetMin(Collected)..SetMax(Collected) :
                 a \notin Collected /\ (a - 1) \in Collected}
GapEnd(a) == SetMin({x \in Collected : x > a}) - 1
ExpectedGap(a) ==
    IF GapEnd(a) = a THEN Numeral(a) ELSE Numeral(a) \o "-" \o Numeral(GapEnd(a))

\* C6: for a non-empty collection the result is its minimum, its maximum, the
\* maximal runs of absent integers in ascending order ("v" or "start-end"),
\* and coverage = distinct count / (max - min + 1) x 100.
C6_GapsAndCoverage ==
    (pcSeq = "done" /\ all_sr_numbers # <<>>) =>
        LET starts == SortedOf(GapStarts)
        IN  /\ seq_result.min_sr = SetMin(Collected)
            /\ seq_result.max_sr = SetMax(Collected)
            /\ Len(seq_result.missing_ranges) = Len(starts)
            /\ \A i \in 1..Len(starts) :
                  seq_result.missing_ranges[i] = ExpectedGap(starts[i])
            /\ seq_result.coverage.num * (SetMax(Collected) - SetMin(Collected) + 1)
                  = Cardinality(Collected) * 100 * seq_result.coverage.den

\* C6 witness: {1,2,4,7,8} gives 1, 8, ["3", "5-6"] and 62.5 (= 625 / 10)
C6_Witness ==
    /\ pcSeq = "done"
    /\ Collected = {1, 2, 4, 7, 8}
    /\ Len(all_sr_numbers) = 6
    /\ seq_result.min_sr = 1
    /\ seq_result.max_sr = 8
    /\ seq_result.missing_ranges = <<"3", "5-6">>
    /\ seq_result.coverage.num * 10 = 625 * seq_result.coverage.den

\* C7: with no serial numbers the validator returns (0, 0, [], 0) and in
\* every case it leaves the serial numbers and the saved records unchanged.
C7_EmptyAndPure ==
    [][(pcSeq = "ready" /\ pcSeq' = "done") =>
          /\ all_sr_numbers' = all_sr_numbers
          /\ excel' = excel
          /\ total_records_saved' = total_records_saved
          /\ voters' = voters
          /\ (all_sr_numbers = <<>> =>
                /\ seq_result'.min_sr = 0
                /\ seq_result'.max_sr = 0
                /\ seq_result'.missing_ranges = <<>>
                /\ seq_result'.coverage.num = 0)]_vars

\* C7 witness: the validation ran on an empty collection
C7_Witness ==
    /\ pcSeq = "done"
    /\ all_sr_numbers = <<>>
    /\ seq_result = EmptySeqResult


(***************************************************************************)
(* Resource monitor.  _get_memory_usage_mb returns megabytes; the three    *)
(* thresholds are the numbers the constructor stores.                      *)
(***************************************************************************)
MemoryThresholdLow == 400 * 1024 * 1024
MemoryThresholdHigh == 600 * 1024 * 1024
MemoryThresholdCritical == 800 * 1024 * 1024

MemoryHistoryLimit == 10
PerformanceHistoryLimit == 5

\* list.append followed by pop(-2) once the list is longer than limit: the
\* most recent of the earlier entries is evicted instead of the oldest
AppendEvictNewest(hist, x, limit) ==
    LET h == Append(hist, x)
    IN  IF Len(h) > limit THEN Append(SubSeq(hist, 1, limit - 1), x) ELSE h

\* list.append followed by pop(0) once the list is longer than limit
AppendTrim(hist, x, limit) ==
    LET h == Append(hist, x)
    IN  IF Len(h) > limit THEN Tail(h) ELSE h

\* a + b + c < bound for naturals, without forming a sum above bound
SumOfThreeBelow(a, b, c, bound) ==
    /\ a < bound
    /\ b < bound - a
    /\ c < bound - a - b

\* a growth test against the low threshold itself
BelowLowOnAverage(hist) ==
    /\ Len(hist) >= 3
    /\ LET l == LastN(hist, 3)
       IN  SumOfThreeBelow(l[1], l[2], l[3], 3 * MemoryThresholdLow)

\* sum(history[-3:]) / 3 < low * 0.7, i.e. the sum is below 2.1 * low
WellBelowLow(hist) ==
    /\ Len(hist) >= 3
    /\ LET l == LastN(hist, 3)
       IN  SumOfThreeBelow(l[1], l[2], l[3], (MemoryThresholdLow \div 10) * 21)

\* a halving with no floor
HalveWithoutFloor(cur) == cur \div 2

ShrinkAggressive(cur) == Max2(1, cur \div 2)
ShrinkByOne(cur) == Max2(MinBatchSize, cur - 1)

\* a growth step that shrinks instead
ShrinkInsteadOfGrow(cur) == Max2(MinBatchSize, cur - 1)

GrowByOne(cur) == Min2(MaxBatchSize, cur + 1)

\* the batch size _check_memory_usage leaves; hist already holds the sample m
BatchSizeAfterCheck(cur, hist, m) ==
    IF m > MemoryThresholdCritical THEN ShrinkAggressive(cur)
    ELSE IF m > MemoryThresholdHigh THEN ShrinkByOne(cur)
    ELSE IF m > MemoryThresholdLow THEN ShrinkByOne(cur)
    ELSE IF WellBelowLow(hist) THEN GrowByOne(cur)
    ELSE cur

\* the value _check_memory_usage returns
MemoryActionTaken(m) == m > MemoryThresholdHigh

\* batch times are tenths of a second; a performance is kept multiplied by
\* TimeUnit, which every batch time of the model divides
TimeUnit == 200
Performance(batch_size, batch_time) == batch_size * 10 * (TimeUnit \div batch_time)

PerformanceEntry(batch_size, batch_time, m) ==
    [batch_size |-> batch_size, time |-> batch_time,
     performance |-> Performance(batch_size, batch_time), memory |-> m]

\* the batch size _optimize_batch_size_based_on_performance leaves; hist
\* already holds the new entry
BatchSizeAfterPerformance(cur, hist) ==
    IF Len(hist) >= 3
    THEN LET l == LastN(hist, 3)
         IN  IF /\ l[1].performance + l[2].performance + l[3].performance > 3 * TimeUnit
                /\ SumOfThreeBelow(l[1].memory, l[2].memory, l[3].memory,
                                   3 * MemoryThresholdLow)
                /\ cur < MaxBatchSize
             THEN GrowByOne(cur)
             ELSE cur
    ELSE cur

\* _check_memory_usage with the sample m
CheckMemoryUsage(m) ==
    /\ memory_usage_history' = AppendTrim(memory_usage_history, m, MemoryHistoryLimit)
    /\ current_batch_size' =
          BatchSizeAfterCheck(current_batch_size,
                              AppendTrim(memory_usage_history, m, MemoryHistoryLimit), m)
    /\ UNCHANGED batch_performance_history

\* _optimize_batch_size_based_on_performance with the memory sample m
OptimizeBatchSize(batch_time, batch_size, m) ==
    LET hist == AppendTrim(batch_performance_history,
                           PerformanceEntry(batch_size, batch_time, m),
                           PerformanceHistoryLimit)
    IN  /\ batch_performance_history' = hist
        /\ current_batch_size' = BatchSizeAfterPerformance(current_batch_size, hist)
        /\ UNCHANGED memory_usage_history


(***************************************************************************)
(* Monitor operations on their own, as the scheduler and the page loop     *)
(* issue them: a memory check, or the report of a finished batch whose     *)
(* size is the current batch size.                                         *)
(***************************************************************************)
MonitorSpecInit ==
    /\ ParseIdle /\ SeqIdle /\ MonitorInit /\ BatchIdle /\ SinkInit /\ CtxIdle /\ RunIdle /\ ConvIdle /\ TextIdle /\ HouseIdle /\ WindowIdle /\ JobIdle

MonitorCheck(samples) ==
    /\ \E m \in samples : CheckMemoryUsage(m)
    /\ UNCHANGED <<parseVars, seqVars, batchVars, sinkVars, ctxVars, runVars, convVars, textVars, houseVars, windowVars, jobVars>>

MonitorReport(times, samples) ==
    /\ \E t \in times, m \in samples : OptimizeBatchSize(t, current_batch_size, m)
    /\ UNCHANGED <<parseVars, seqVars, batchVars, sinkVars, ctxVars, runVars, convVars, textVars, houseVars, windowVars, jobVars>>

\* SpecPressure: every sample the monitor sees is above 600 MB
PressureSamples == {700, 900}
PressureReportSamples == {700}
SlowTimes == {200}

PressureCheck == MonitorCheck(PressureSamples)
PressureReport == MonitorReport(SlowTimes, PressureReportSamples)
PressureNext == PressureCheck \/ PressureReport

SpecPressure == MonitorSpecInit /\ [][PressureNext]_vars

\* C8: while every sample is above the high threshold (600 MB) the batch size
\* never increases from one monitor operation to the next and, once at the
\* floor, stays there.
C8_ShrinksUnderPressure ==
    [][/\ current_batch_size' <= current_batch_size
       /\ (current_batch_size = MinBatchSize => current_batch_size' = MinBatchSize)]_vars

\* SpecGrow: every sample is well below the low threshold and every batch
\* runs faster than one page per second; monitor operations keep coming
LowSamples == {50, 200}
LowReportSamples == {200}
FastTimes == {5}

GrowCheck == MonitorCheck(LowSamples)
GrowReport == MonitorReport(FastTimes, LowReportSamples)
GrowNext == GrowCheck \/ GrowReport

SpecGrow == MonitorSpecInit /\ [][GrowNext]_vars /\ WF_vars(GrowNext)

\* C9: under sustained low memory and high throughput the batch size never
\* decreases, never exceeds the ceiling, reaches the ceiling, and stays there.
C9_GrowsToCeiling ==
    /\ [][/\ current_batch_size' >= current_batch_size
          /\ (current_batch_size = MaxBatchSize => current_batch_size' = MaxBatchSize)]_vars
    /\ [](current_batch_size <= MaxBatchSize)
    /\ <>(current_batch_size = MaxBatchSize)

\* C9 witness: the ceiling has been reached by growth steps of both kinds
C9_Witness ==
    /\ current_batch_size = MaxBatchSize
    /\ Len(memory_usage_history) >= 3
    /\ Len(batch_performance_history) >= 3
    /\ \A i \in 1..Len(memory_usage_history) : memory_usage_history[i] \in LowSamples


(***************************************************************************)
(* Image batch scheduler: extract_text_from_pdf_batched and                *)
(* _process_image_batch.  Pages are numbered from 1; batch_start and       *)
(* batch_end are the 0-based bounds the code keeps, so page_texts[p] here  *)
(* is page_texts[p - 1] there.                                             *)
(***************************************************************************)
EmptyText == ""
NotProduced == "none"
Image == "image"
Cleared == "None"

\* what tesseract returns for the image of page p: a text of that page only
PageText(p) == "text of page " \o IntToStr(p)

\* a page task whose failure leaves no text at all
process_single_image_unguarded(p, ok) == <<p, IF ok THEN PageText(p) ELSE NotProduced>>

\* process_single_image: the page's text, or "" when the OCR of it raised
process_single_image(p, ok) == <<p, IF ok THEN PageText(p) ELSE EmptyText>>

\* max_workers of one _process_image_batch call, memory sample m
PoolMaxWorkers == 3
WorkerCount(m, batch_size) ==
    IF m > MemoryThresholdHigh THEN 1
    ELSE IF m > MemoryThresholdLow THEN Min2(2, batch_size)
    ELSE Min2(3, Min2(batch_size, PoolMaxWorkers))

RECURSIVE InsertByPage(_, _)
InsertByPage(r, s) ==
    IF s = <<>> THEN <<r>>
    ELSE IF r[1] < Head(s)[1] THEN <<r>> \o s
    ELSE <<Head(s)>> \o InsertByPage(r, Tail(s))

RECURSIVE SortByPage(_)
\* results.sort(key=lambda x: x[0])
SortByPage(res) ==
    IF res = <<>> THEN <<>>
    ELSE InsertByPage(res[Len(res)], SortByPage(SubSeq(res, 1, Len(res) - 1)))

RECURSIVE StoreResults(_, _)
\* for page_num, text in batch_results: page_texts[page_num - 1] = text
StoreResults(texts, res) ==
    IF res = <<>> THEN texts
    ELSE LET r == Head(res)
             stored == IF r[1] <= Len(texts) THEN [texts EXCEPT ![r[1]] = r[2]]
                       ELSE texts
         IN  StoreResults(stored, Tail(res))

\* the texts of a batch written in the order the workers finished, at the
\* batch's slots from batch_start on
BatchTextsInArrivalOrder(texts, res) ==
    [i \in 1..Len(texts) |->
        IF i - batch_start \in 1..Len(res) THEN res[i - batch_start][2] ELSE texts[i]]

\* page_texts after a batch: the sorted results stored by page number
BatchTexts(texts, res) == StoreResults(texts, SortByPage(res))

\* images[i] = None for the pages of the batch
ClearImages(imgs, pages) ==
    [i \in 1..Len(imgs) |-> IF (i - 1) \in pages THEN Cleared ELSE imgs[i]]

\* the loop test after batch_start = batch_end
AfterBatch(next_start) == IF next_start < total_pages THEN "form" ELSE "done"

\* the call up to the conversion: the initial _check_memory_usage
BeginExtract(m) ==
    /\ pcBatch = "idle"
    /\ CheckMemoryUsage(m)
    /\ pcBatch' = "convert"
    /\ UNCHANGED <<total_pages, images, page_texts, batch_start, batch_end, batch_number,
                   batch_pages, pending, running, pool_size, results, ocr_out, completed,
                   ocr_raised, failed_ranges, memory_mb>>

\* convert_from_path returned n images; no pages ends the call with []
Convert(n) ==
    /\ pcBatch = "convert"
    /\ total_pages' = n
    /\ images' = [i \in 1..n |-> Image]
    /\ page_texts' = [i \in 1..n |-> EmptyText]
    /\ ocr_out' = [i \in 1..n |-> NotProduced]
    /\ batch_start' = 0
    /\ batch_number' = 1
    /\ pcBatch' = IF n = 0 THEN "done" ELSE "form"
    /\ UNCHANGED <<batch_end, batch_pages, pending, running, pool_size, results, completed,
                   ocr_raised, failed_ranges, memory_mb, monVars>>

\* all three conversion attempts failed: MemoryError leaves the call
ConvertFail ==
    /\ pcBatch = "convert"
    /\ pcBatch' = "raised"
    /\ UNCHANGED <<total_pages, images, page_texts, batch_start, batch_end, batch_number,
                   batch_pages, pending, running, pool_size, results, ocr_out, completed,
                   ocr_raised, failed_ranges, memory_mb, monVars>>

\* top of the while body: the batch range from the size read before the
\* check, recomputed when the check reports an action; then the image batch
\* and the pool of _process_image_batch (memory sample m2)
FormBatch(m, m2) ==
    /\ pcBatch = "form"
    /\ batch_start < total_pages
    /\ CheckMemoryUsage(m)
    /\ LET size == IF MemoryActionTaken(m) THEN current_batch_size' ELSE current_batch_size
           end == Min2(batch_start + size, total_pages)
           pages == batch_start..(end - 1)
           image_batch == SortedOf({i + 1 : i \in {j \in pages : j < Len(images)
                                                              /\ images[j + 1] # Cleared}})
       IN  /\ batch_end' = end
           /\ batch_pages' = pages
           /\ pending' = image_batch
           /\ pool_size' = WorkerCount(m2, Len(image_batch))
    /\ memory_mb' = m2
    /\ running' = {}
    /\ results' = <<>>
    /\ pcBatch' = "ocr"
    /\ UNCHANGED <<total_pages, images, page_texts, batch_start, batch_number, ocr_out,
                   completed,
                   ocr_raised, failed_ranges>>

\* a pool worker (or the sequential loop) takes the next submitted page
StartTask ==
    /\ pcBatch = "ocr"
    /\ pending # <<>>
    /\ Cardinality(running) < pool_size
    /\ running' = running \cup {Head(pending)}
    /\ pending' = Tail(pending)
    /\ UNCHANGED <<total_pages, images, page_texts, batch_start, batch_end, batch_number,
                   batch_pages, pool_size, results, ocr_out, completed,
                   ocr_raised, failed_ranges, memory_mb, pcBatch, monVars>>

\* a running page task returns and its result is appended
CompleteTask(p, ok) ==
    /\ pcBatch = "ocr"
    /\ p \in running
    /\ running' = running \ {p}
    /\ results' = Append(results, process_single_image(p, ok))
    /\ ocr_out' = [ocr_out EXCEPT ![p] = process_single_image(p, ok)[2]]
    /\ completed' = Append(completed, p)
    /\ ocr_raised' = IF ok THEN ocr_raised ELSE ocr_raised \cup {p}
    /\ UNCHANGED <<failed_ranges, memory_mb>>
    /\ UNCHANGED <<total_pages, images, page_texts, batch_start, batch_end, batch_number,
                   batch_pages, pending, pool_size, pcBatch, monVars>>

\* the batch returned: store, report the batch time, clear images, advance
FinishBatch(batch_time, m) ==
    /\ pcBatch = "ocr"
    /\ pending = <<>>
    /\ running = {}
    /\ IF results # <<>>
       THEN /\ page_texts' = BatchTexts(page_texts, results)
            /\ OptimizeBatchSize(batch_time, Len(results), m)
       ELSE UNCHANGED <<page_texts, monVars>>
    /\ images' = ClearImages(images, batch_pages)
    /\ batch_start' = batch_end
    /\ batch_number' = batch_number + 1
    /\ results' = <<>>
    /\ memory_mb' = 0
    /\ pcBatch' = AfterBatch(batch_end)
    /\ UNCHANGED <<total_pages, batch_end, batch_pages, pending, running, pool_size, ocr_out,
                   completed,
                   ocr_raised, failed_ranges>>

\* an except branch that leaves the texts as the try body left them
KeepBatchTexts(texts, pages) == texts

\* the except branch's loop: page_texts[i] = "" for the pages of the batch
BlankBatchTexts(texts, pages) ==
    [i \in 1..Len(texts) |-> IF (i - 1) \in pages THEN EmptyText ELSE texts[i]]

\* the except branch of the while body: an exception outside the page tasks
\* blanks the batch's pages, before the results were stored (the pool cannot
\* start) or after (the batch report fails)
BatchFail(stored) ==
    /\ pcBatch = "ocr"
    /\ running = {}
    /\ stored => pending = <<>> /\ results # <<>>
    /\ page_texts' = BlankBatchTexts(IF stored THEN BatchTexts(page_texts, results)
                                     ELSE page_texts, batch_pages)
    /\ batch_start' = batch_end
    /\ batch_number' = batch_number + 1
    /\ pending' = <<>>
    /\ results' = <<>>
    /\ failed_ranges' = failed_ranges \cup {<<batch_start, batch_end>>}
    /\ memory_mb' = 0
    /\ pcBatch' = AfterBatch(batch_end)
    /\ UNCHANGED <<total_pages, images, batch_end, batch_pages, running, pool_size,
                   ocr_out, completed, ocr_raised, monVars>>


(***************************************************************************)
(* SpecBatch: one extract_text_from_pdf_batched call over a document of up *)
(* to MaxPages pages, memory samples on both sides of the thresholds and   *)
(* page tasks that finish in any order the pool allows.                    *)
(***************************************************************************)
MaxPages == 3
SchedulerSamples == {120, MemoryThresholdHigh + 1, MemoryThresholdCritical + 1}
SchedulerTimes == {5, 200}

BatchSpecInit ==
    /\ ParseIdle /\ SeqIdle /\ MonitorInit /\ BatchIdle /\ SinkInit /\ CtxIdle /\ RunIdle /\ ConvIdle /\ TextIdle /\ HouseIdle /\ WindowIdle /\ JobIdle

OutsideBatch == <<parseVars, seqVars, sinkVars, ctxVars, runVars, convVars, textVars, houseVars, windowVars, jobVars>>

ExtractBegin ==
    /\ \E m \in SchedulerSamples : BeginExtract(m)
    /\ UNCHANGED OutsideBatch

ExtractConvert ==
    /\ \E n \in 0..MaxPages : Convert(n)
    /\ UNCHANGED OutsideBatch

ExtractConvertFail == ConvertFail /\ UNCHANGED OutsideBatch

ExtractForm ==
    /\ \E m \in SchedulerSamples, m2 \in SchedulerSamples : FormBatch(m, m2)
    /\ UNCHANGED OutsideBatch

ExtractStart == StartTask /\ UNCHANGED OutsideBatch

ExtractComplete ==
    /\ \E p \in 1..MaxPages, ok \in BOOLEAN : CompleteTask(p, ok)
    /\ UNCHANGED OutsideBatch

ExtractFinish ==
    /\ \E t \in SchedulerTimes, m \in SchedulerSamples : FinishBatch(t, m)
    /\ UNCHANGED OutsideBatch

ExtractBatchFail ==
    /\ \E stored \in BOOLEAN : BatchFail(stored)
    /\ UNCHANGED OutsideBatch

BatchNext ==
    \/ ExtractBegin
    \/ ExtractConvert
    \/ ExtractConvertFail
    \/ ExtractForm
    \/ ExtractStart
    \/ ExtractComplete
    \/ ExtractFinish
    \/ ExtractBatchFail

SpecBatch == BatchSpecInit /\ [][BatchNext]_vars

\* C3: the returned list has one entry per converted page, and entry p is
\* what the OCR of page p produced (blank when the page's OCR or its batch
\* failed), whatever the completion order and the batch sizes were.
C3_PageOrder ==
    pcBatch = "done" =>
        /\ Len(page_texts) = total_pages
        /\ \A p \in 1..total_pages :
              /\ page_texts[p] \in {ocr_out[p], EmptyText}
              /\ page_texts[p] \in {PageText(p), EmptyText}

\* C3 witness: a finished call of several batches, a page task overtaken by
\* a later page, and every page's own text in its slot
C3_Witness ==
    /\ pcBatch = "done"
    /\ total_pages = MaxPages
    /\ batch_number > 2
    /\ \E i, j \in 1..Len(completed) : i < j /\ completed[i] > completed[j]
    /\ \A p \in 1..total_pages : page_texts[p] = PageText(p)


(***************************************************************************)
(* SpecCtx: one extractor call on a context of one or two rows of house    *)
(* codes followed by the four field lines of a row of up to MaxColumns     *)
(* voters.                                                                 *)
(***************************************************************************)
CtxSpecInit ==
    /\ ParseIdle /\ SeqIdle /\ MonitorInit /\ BatchIdle /\ SinkInit /\ RunIdle /\ ConvIdle /\ TextIdle /\ HouseIdle /\ WindowIdle /\ JobIdle
    /\ context \in Contexts
    /\ ctx_house_num \in CtxCodes \cup {<<>>}
    /\ ctx_voter = BlankVoter
    /\ ctx_prev = <<>>
    /\ pcCtx = "ready"

CtxNext ==
    /\ ExtractFromContext
    /\ UNCHANGED <<parseVars, seqVars, monVars, batchVars, sinkVars, runVars, convVars, textVars, houseVars, windowVars, jobVars>>

SpecCtx == CtxSpecInit /\ [][CtxNext]_vars

\* the context lines that hold the seed's code as a whole occurrence
LinesWithExactCode ==
    {k \in 1..Len(context) : \E i \in 1..Len(context[k].codes) :
                                 context[k].codes[i] = ctx_house_num}

\* the 0-based position of the seed's code among the occurrences of line k
PositionOnLine(k) ==
    SetMin({i \in 1..Len(context[k].codes) : context[k].codes[i] = ctx_house_num}) - 1

\* what a field holds when the occurrence at index column was selected
FieldAt(label, column) ==
    LET occ == Selected(context, label, column)
    IN  IF occ = NoValue THEN NoValue
        ELSE IF label = "age_gender" THEN convert_marathi_numbers_to_english(occ[1])
        ELSE occ

\* C10: after the call on a context in which some line holds the seed's code
\* h, every field holds the occurrence whose 0-based index is the position of
\* h among the house codes of the (first) line that holds h.
C10_ColumnOfSeed ==
    (pcCtx = "done" /\ ctx_house_num # <<>> /\ LinesWithExactCode # {}) =>
        LET column == PositionOnLine(SetMin(LinesWithExactCode))
        IN  /\ ctx_voter.Name = FieldAt("name", column)
            /\ ctx_voter.FatherName = FieldAt("father", column)
            /\ ctx_voter.HouseNo = FieldAt("house", column)
            /\ ctx_voter.Age = FieldAt("age_gender", column)

\* the spec's own example: three codes on one line, seed 217/134/11
C10_Example ==
    /\ pcCtx = "done"
    /\ context[1].codes = <<<<217, 134, 10>>, <<217, 134, 11>>, <<217, 134, 12>>>>
    /\ Len(context) = 5
    /\ Len(context[2].matches) = 3
    /\ ctx_house_num = <<217, 134, 11>>
    /\ ctx_voter.Name = Occurrence("name", 2)


(***************************************************************************)
(* SpecRerun: the extractor is called on a record, other entries of other  *)
(* pages are parsed at any time, and the extractor is called a second time *)
(* with the same context and house code, on its own output or on a fresh   *)
(* record.                                                                 *)
(***************************************************************************)
OtherPages == {<<Match(c, h)>> : c \in FewCandidates, h \in HouseCodes}

\* one row of two house codes and the field lines of up to MaxColumns voters
RerunContexts ==
    {<<CodeLine(codes)>> \o FieldLines(n) : codes \in [1..2 -> CtxCodes], n \in 1..MaxColumns}

RerunInit ==
    /\ text \in OtherPages
    /\ voters = <<>>
    /\ page_stats = [found |-> 0, valid |-> 0, rejected |-> 0]
    /\ total_patterns_found = 0
    /\ total_valid_ids = 0
    /\ total_rejected_ids = 0
    /\ pcParse = "ready"
    /\ SeqIdle /\ MonitorInit /\ BatchIdle /\ SinkInit /\ RunIdle /\ ConvIdle /\ TextIdle /\ HouseIdle /\ WindowIdle /\ JobIdle
    /\ context \in RerunContexts
    /\ ctx_house_num \in CtxCodes \cup {<<>>}
    /\ ctx_voter = BlankVoter
    /\ ctx_prev = <<>>
    /\ pcCtx = "ready"

OutsideCtx == <<parseVars, seqVars, monVars, batchVars, sinkVars, runVars, convVars, textVars, houseVars, windowVars, jobVars>>

RerunFirst == ExtractFromContext /\ UNCHANGED OutsideCtx
RerunAgain == ExtractAgainOnOutput /\ UNCHANGED OutsideCtx
RerunFresh == ExtractOnFreshRecord /\ UNCHANGED OutsideCtx
RerunOtherPage == ParseVoterInfo

RerunNext ==
    \/ RerunFirst
    \/ RerunAgain
    \/ RerunFresh
    \/ RerunOtherPage

SpecRerun == RerunInit /\ [][RerunNext]_vars

\* C11: a second call with the same context and house code, on the first
\* call's output record or on a fresh record, leaves the record the first
\* call left, whatever was parsed in between.
C11_Idempotent ==
    pcCtx \in {"again", "fresh"} => ctx_voter = ctx_prev

\* C11 witness: a second call on the own output after another page was
\* parsed, with a field written and a field left empty
C11_Witness ==
    /\ pcCtx = "again"
    /\ pcParse = "parsed"
    /\ total_valid_ids > 0
    /\ ctx_voter.Name # NoValue
    /\ ctx_voter.Gender = NoValue
    /\ VoterColumn(context, ctx_house_num) > 0


(***************************************************************************)
(* Pipeline run: process_pdf_incrementally.  A page text is the matches    *)
(* the five patterns find on each of its lines, in the order all_matches   *)
(* holds them (pattern by pattern), each with its start offset; a page     *)
(* whose text is blank after strip() has no lines.                         *)
(***************************************************************************)
Found(raw, house, window, start, pattern) ==
    [raw |-> raw, house_num |-> house, context |-> window, start |-> start,
     pattern |-> pattern]

RECURSIVE InsertByStart(_, _)
\* a stable insertion by start offset
InsertByStart(f, s) ==
    IF s = <<>> THEN <<f>>
    ELSE IF f.start < Head(s).start THEN <<f>> \o s
    ELSE <<Head(s)>> \o InsertByStart(f, Tail(s))

RECURSIVE SortByStart(_)
\* sorted(all_matches, key=lambda m: m.start())
SortByStart(found) ==
    IF found = <<>> THEN <<>>
    ELSE InsertByStart(found[Len(found)], SortByStart(SubSeq(found, 1, Len(found) - 1)))

\* a loop without the seen_starts test: every match is taken
EveryMatch(sorted, seen) == sorted

RECURSIVE FirstPerStart(_, _)
\* the seen_starts filter: the first match of every start offset
FirstPerStart(sorted, seen) ==
    IF sorted = <<>> THEN <<>>
    ELSE IF Head(sorted).start \in seen THEN FirstPerStart(Tail(sorted), seen)
    ELSE <<Head(sorted)>> \o FirstPerStart(Tail(sorted), seen \cup {Head(sorted).start})

\* the matches of a line in the order they are taken, without the sort
LineMatchesUnsorted(found) == FirstPerStart(found, {})

\* the matches of one line in the order the entry loop takes them
LineMatches(found) == FirstPerStart(SortByStart(found), {})

\* what the entry loop reads of each match
AsMatches(found) ==
    [i \in 1..Len(found) |-> MatchIn(found[i].raw, found[i].house_num, found[i].context)]

RECURSIVE PageMatches(_)
\* the matches of a page: line by line
PageMatches(lines) ==
    IF lines = <<>> THEN <<>>
    ELSE AsMatches(LineMatches(Head(lines))) \o PageMatches(Tail(lines))

BlankPage == [blank |-> TRUE, lines |-> <<>>]
TextPage(lines) == [blank |-> FALSE, lines |-> lines]

\* "Check initial memory" of the run
RunBegin(m) ==
    /\ pcRun = "idle"
    /\ CheckMemoryUsage(m)
    /\ pcRun' = "init"
    /\ UNCHANGED <<run_i, all_voters_count, run_result, config>>
    /\ UNCHANGED <<parseVars, seqVars, batchVars, sinkVars, ctxVars, convVars, textVars, houseVars, windowVars, jobVars>>

\* initialize_excel_file: a new workbook holding the header row replaces the
\* file, or wb.save raises and the exception leaves the run
RunInitializeExcel(saved) ==
    /\ pcRun = "init"
    /\ IF saved
       THEN /\ excel' = <<>>
            /\ pcRun' = "extract"
            /\ UNCHANGED run_result
       ELSE /\ run_result' = [kind |-> "raised", value |-> "store initialization error"]
            /\ pcRun' = "raised"
            /\ UNCHANGED excel
    /\ UNCHANGED <<lock, total_records_saved, backup, tpc, twb, targ, tfailed>>
    /\ UNCHANGED <<run_i, all_voters_count, config>>
    /\ UNCHANGED <<parseVars, seqVars, monVars, batchVars, ctxVars, convVars, textVars, houseVars, windowVars, jobVars>>

\* extract_text_from_pdf_batched as one step of the run: its initial memory
\* check and the list it returns (the batches in between are SpecBatch's)
RunExtract(m, texts) ==
    /\ pcRun = "extract"
    /\ CheckMemoryUsage(m)
    /\ page_texts' = texts
    /\ total_pages' = Len(texts)
    /\ run_i' = 0
    /\ pcRun' = "loop"
    /\ UNCHANGED <<images, batch_start, batch_end, batch_number, batch_pages, pending,
                   running, pool_size, results, ocr_out, completed,
                   ocr_raised, failed_ranges, memory_mb, pcBatch>>
    /\ UNCHANGED <<all_voters_count, run_result, config>>
    /\ UNCHANGED <<parseVars, seqVars, sinkVars, ctxVars, convVars, textVars, houseVars, windowVars, jobVars>>

\* every conversion tier failed: MemoryError leaves the run
RunExtractRaises(m) ==
    /\ pcRun = "extract"
    /\ CheckMemoryUsage(m)
    /\ run_result' = [kind |-> "raised", value |-> "MemoryError"]
    /\ pcRun' = "raised"
    /\ UNCHANGED <<run_i, all_voters_count, config>>
    /\ UNCHANGED <<parseVars, seqVars, batchVars, sinkVars, ctxVars, convVars, textVars, houseVars, windowVars, jobVars>>

\* top of the page loop: memory check, then a blank page is skipped and any
\* other page goes to parse_voter_info
RunTakePage(m) ==
    /\ pcRun = "loop"
    /\ pcParse \in {"idle", "done"}
    /\ run_i < Len(page_texts)
    /\ CheckMemoryUsage(m)
    /\ run_i' = run_i + 1
    /\ IF page_texts[run_i + 1].blank
       THEN UNCHANGED <<text, pcParse>>
       ELSE /\ text' = PageMatches(page_texts[run_i + 1].lines)
            /\ pcParse' = "ready"
    /\ UNCHANGED <<voters, page_stats, total_patterns_found, total_valid_ids,
                   total_rejected_ids>>
    /\ UNCHANGED <<all_voters_count, run_result, config, pcRun>>
    /\ UNCHANGED <<seqVars, batchVars, sinkVars, ctxVars, convVars, textVars, houseVars, windowVars, jobVars>>

\* parse_voter_info raises: the page's except branch, continue
RunParseRaises ==
    /\ pcRun = "loop"
    /\ pcParse = "ready"
    /\ pcParse' = "done"
    /\ UNCHANGED <<text, voters, page_stats, total_patterns_found, total_valid_ids,
                   total_rejected_ids>>
    /\ UNCHANGED <<seqVars, monVars, batchVars, sinkVars, ctxVars, runVars, convVars, textVars, houseVars, windowVars, jobVars>>

\* "if voters:" with no records: the page's text is cleared
RunNoVoters ==
    /\ pcRun = "loop"
    /\ pcParse = "parsed"
    /\ voters = <<>>
    /\ page_texts' = [page_texts EXCEPT ![run_i] = BlankPage]
    /\ pcParse' = "done"
    /\ UNCHANGED <<total_pages, images, batch_start, batch_end, batch_number, batch_pages,
                   pending, running, pool_size, results, ocr_out, completed,
                   ocr_raised, failed_ranges, memory_mb, pcBatch>>
    /\ UNCHANGED <<text, voters, page_stats, total_patterns_found, total_valid_ids,
                   total_rejected_ids>>
    /\ UNCHANGED <<seqVars, monVars, sinkVars, ctxVars, runVars, convVars, textVars, houseVars, windowVars, jobVars>>

\* "if voters:" with records: the call of append_voters_to_excel
RunSaveVoters ==
    /\ pcRun = "loop"
    /\ pcParse = "parsed"
    /\ voters # <<>>
    /\ CallAppend(MainThread, voters)
    /\ pcParse' = "saving"
    /\ UNCHANGED <<lock, excel, total_records_saved, backup, twb, tfailed>>
    /\ UNCHANGED <<text, voters, page_stats, total_patterns_found, total_valid_ids,
                   total_rejected_ids>>
    /\ UNCHANGED <<seqVars, monVars, batchVars, ctxVars, runVars, convVars, textVars, houseVars, windowVars, jobVars>>

\* a step of append_voters_to_excel on the run's thread
RunSinkStep ==
    /\ pcRun = "loop"
    /\ pcParse = "saving"
    /\ SinkStep(MainThread)
    /\ UNCHANGED <<parseVars, seqVars, monVars, batchVars, ctxVars, runVars, convVars, textVars, houseVars, windowVars, jobVars>>

\* the append returned: count the page's voters, clear its text
RunPageSaved ==
    /\ pcRun = "loop"
    /\ pcParse = "saving"
    /\ tpc[MainThread] = "done"
    /\ tpc' = [tpc EXCEPT ![MainThread] = "idle"]
    /\ all_voters_count' = all_voters_count + Len(voters)
    /\ page_texts' = [page_texts EXCEPT ![run_i] = BlankPage]
    /\ pcParse' = "done"
    /\ UNCHANGED <<total_pages, images, batch_start, batch_end, batch_number, batch_pages,
                   pending, running, pool_size, results, ocr_out, completed,
                   ocr_raised, failed_ranges, memory_mb, pcBatch>>
    /\ UNCHANGED <<lock, excel, total_records_saved, backup, twb, targ, tfailed>>
    /\ UNCHANGED <<text, voters, page_stats, total_patterns_found, total_valid_ids,
                   total_rejected_ids>>
    /\ UNCHANGED <<run_i, run_result, config, pcRun>>
    /\ UNCHANGED <<seqVars, monVars, ctxVars, convVars, textVars, houseVars, windowVars, jobVars>>

\* after the last page: the sequence validation, the summary, the return
RunFinish ==
    /\ pcRun = "loop"
    /\ pcParse \in {"idle", "done"}
    /\ run_i = Len(page_texts)
    /\ seq_result' = SequenceResult(all_sr_numbers)
    /\ pcSeq' = "done"
    /\ run_result' = [kind |-> "returned", value |-> total_records_saved]
    /\ pcRun' = "returned"
    /\ UNCHANGED <<all_sr_numbers, run_i, all_voters_count, config>>
    /\ UNCHANGED <<parseVars, monVars, batchVars, sinkVars, ctxVars, convVars, textVars, houseVars, windowVars, jobVars>>


(***************************************************************************)
(* SpecRun: one run over a document of up to MaxRunPages pages.  The ID of *)
(* a match spells its page, line and place on the line, so a row of the    *)
(* store shows where its record was found.                                 *)
(***************************************************************************)
MaxRunPages == 2
RunSamples == {120}
ConfigValues == {DefaultConfig,
                 [matadaar_sangh |-> <<"Kothrud">>, election_type |-> <<"Municipal">>,
                  ward_number |-> <<"12">>]}

\* the 10 characters of the entry at line l, place k of page p
IdAt(p, l, k) ==
    <<"S", "M", "F", "1", "2", "3", "4", DigitChar(p), DigitChar(l), DigitChar(k)>>

\* a candidate of page p that validation rejects
RejectedAt(p) == <<"L", "J", "Z", "L", "L", "L", "L", "1", "2", DigitChar(p)>>

\* the page's window for the entry of its second line
RunWindows ==
    <<<<ParseCodes, FieldLine("name", 0), FieldLine("age_gender", 3)>>,
      <<ParseCodes>> \o FieldLines(3),
      <<ParseCodes, FieldLine("name", 3), FieldLine("house", 3)>>,
      <<ParseCodes>> \o FieldLines(1)>>

FirstLineFinds(p) ==
    LET a == Found(IdAt(p, 0, 0), <<217, 134, 12>>, RunWindows[4], 0, 2)
        b == Found(IdAt(p, 0, 1), <<>>, <<>>, 11, 1)
        b_again == Found(IdAt(p, 0, 1), <<>>, <<>>, 11, 4)
    IN  {<<>>, <<b, a, b_again>>}

SecondLineFinds(p) ==
    {<<>>,
     <<Found(IdAt(p, 1, 0), <<217, 134, 10 + (p % 3)>>, RunWindows[((p - 1) % 4) + 1], 0, 1)>>,
     <<Found(RejectedAt(p), <<>>, <<>>, 0, 2)>>}

RunPagesAt(p) ==
    {BlankPage} \cup {TextPage(<<l1, l2>>) : l1 \in FirstLineFinds(p), l2 \in SecondLineFinds(p)}

RECURSIVE RunDocumentsOf(_)
\* the documents of n pages
RunDocumentsOf(n) ==
    IF n = 0 THEN {<<>>}
    ELSE {Append(d, pg) : d \in RunDocumentsOf(n - 1), pg \in RunPagesAt(n)}

RunDocuments == UNION {RunDocumentsOf(n) : n \in 0..MaxRunPages}

RunSpecInit ==
    /\ ParseIdle /\ SeqIdle /\ MonitorInit /\ BatchIdle /\ SinkInit /\ CtxIdle /\ ConvIdle /\ TextIdle /\ HouseIdle /\ WindowIdle /\ JobIdle
    /\ config \in ConfigValues
    /\ run_i = 0
    /\ all_voters_count = 0
    /\ run_result = <<>>
    /\ pcRun = "idle"

RunStart == \E m \in RunSamples : RunBegin(m)
RunInitStore == \E saved \in BOOLEAN : RunInitializeExcel(saved)
RunExtractTexts == \E m \in RunSamples, texts \in RunDocuments : RunExtract(m, texts)
RunExtractFails == \E m \in RunSamples : RunExtractRaises(m)
RunPage == \E m \in RunSamples : RunTakePage(m)
RunParse == pcRun = "loop" /\ ParseVoterInfo

RunNext ==
    \/ RunStart
    \/ RunInitStore
    \/ RunExtractTexts
    \/ RunExtractFails
    \/ RunPage
    \/ RunParse
    \/ RunParseRaises
    \/ RunNoVoters
    \/ RunSaveVoters
    \/ RunSinkStep
    \/ RunPageSaved
    \/ RunFinish

SpecRun == RunSpecInit /\ [][RunNext]_vars


(***************************************************************************)
(* C12: discovery order of the rows.                                       *)
(***************************************************************************)
DigitOf(c) == CHOOSE d \in 0..9 : DigitChar(d) = c

\* where the record of a row was found: <<page, line, place on the line>>
FoundAt(row) == <<DigitOf(row[2][8]), DigitOf(row[2][9]), DigitOf(row[2][10])>>

EarlierPlace(a, b) ==
    \/ a[1] < b[1]
    \/ a[1] = b[1] /\ a[2] < b[2]
    \/ a[1] = b[1] /\ a[2] = b[2] /\ a[3] < b[3]

RowsInDiscoveryOrder ==
    \A i, j \in 1..Len(excel) : i < j => EarlierPlace(FoundAt(excel[i]), FoundAt(excel[j]))

\* every row of the store stays where it was written
RowsKept == Len(excel) <= Len(excel') /\ SubSeq(excel', 1, Len(excel)) = excel

\* C12: the rows of the store are in discovery order (page, then line, then
\* start offset on the line), and a step of the page loop leaves every row
\* already written in its place, unchanged.
C12_DiscoveryOrder == [](RowsInDiscoveryOrder) /\ [][pcRun = "loop" => RowsKept]_vars

\* the run returned with rows of both pages, of both lines of a page and of
\* both places of a line whose later match was found first
C12_Witness ==
    /\ pcRun = "returned"
    /\ \E i, j \in 1..Len(excel) : FoundAt(excel[i])[1] = 1 /\ FoundAt(excel[j])[1] = 2
    /\ \E i, j \in 1..Len(excel) :
          /\ FoundAt(excel[i])[1] = FoundAt(excel[j])[1]
          /\ FoundAt(excel[i])[2] = 0 /\ FoundAt(excel[j])[2] = 1
    /\ \E i \in 1..Len(excel) : FoundAt(excel[i])[3] = 1


(***************************************************************************)
(* C13: the fourteen fields of a record and the fourteen cells of a row.   *)
(***************************************************************************)
FieldNames == {Headers[k] : k \in 1..Len(Headers)}

AcceptedMatch(m) == AcceptedId(m.raw) # <<>>

\* the keyword pair of a field is on no line of the window, or the pattern
\* finds nothing on the first line that carries it
NothingToRead(window, label) ==
    LET carrying == {k \in 1..Len(window) : window[k].label = label}
    IN  carrying = {} \/ window[SetMin(carrying)].matches = <<>>

\* the records of the page just parsed, against the matches they came from
RecordsComplete ==
    LET accepted == SelectSeq(text, AcceptedMatch)
    IN  /\ Len(voters) = Len(accepted)
        /\ \A i \in 1..Len(voters) :
              /\ DOMAIN voters[i] = FieldNames
              /\ voters[i].MatadaarSangh = config.matadaar_sangh
              /\ voters[i].ElectionType = config.election_type
              /\ voters[i].WardNumber = config.ward_number
              /\ NothingToRead(accepted[i].context, "name") => voters[i].Name = NoValue
              /\ NothingToRead(accepted[i].context, "father")
                    => voters[i].FatherName = NoValue
              /\ NothingToRead(accepted[i].context, "house") => voters[i].HouseNo = NoValue
              /\ NothingToRead(accepted[i].context, "age_gender")
                    => voters[i].Age = NoValue /\ voters[i].Gender = NoValue

\* the rows the sink appended to its workbook, against the records it was given
RowsInHeaderOrder ==
    \A t \in Threads :
        tpc[t] = "save" =>
            /\ Len(twb[t]) >= Len(targ[t])
            /\ \A i \in 1..Len(targ[t]) :
                  LET row == twb[t][Len(twb[t]) - Len(targ[t]) + i]
                  IN  /\ Len(row) = Len(Headers)
                      /\ \A k \in 1..Len(Headers) : row[k] = targ[t][i][Headers[k]]

\* C13: every record of parse_voter_info has the 14 fields, with the empty
\* string where the field's keywords are absent or its pattern finds
\* nothing and with the three configuration values of the constructor; every
\* row of the sink has 14 cells, cell k holding the field of header k.
C13_FourteenFields ==
    /\ pcParse \in {"parsed", "saving"} => RecordsComplete
    /\ RowsInHeaderOrder
    /\ \A i \in 1..Len(excel) :
          /\ Len(excel[i]) = 14
          /\ excel[i][9] = config.matadaar_sangh
          /\ excel[i][10] = config.election_type
          /\ excel[i][11] = config.ward_number

\* the run returned with a row whose fields were all read, stamped with the
\* configuration given, and a row whose name pattern found nothing and whose
\* parent and house lines are absent
C13_Witness ==
    /\ pcRun = "returned"
    /\ config # DefaultConfig
    /\ \E i \in 1..Len(excel) :
          /\ \A k \in {3, 4, 6, 7, 8} : excel[i][k] # NoValue
          /\ excel[i][9] = <<"Kothrud">>
    /\ \E i \in 1..Len(excel) :
          /\ \A k \in {3, 4, 6} : excel[i][k] = NoValue
          /\ excel[i][7] # NoValue


(***************************************************************************)
(* Document-to-image conversion: the three nested attempts at the head of  *)
(* extract_text_from_pdf_batched.  An image is the number of the page it   *)
(* shows; a page number that is None or 0 is "not given".                  *)
(***************************************************************************)
DocumentPages(n) == [k \in 1..n |-> k]

\* convert_from_path with first_page and last_page: the pages of the range
\* that the document has
PagesOfRange(n, first_page, last_page) ==
    LET first == IF first_page = None THEN 1 ELSE first_page
        last == IF last_page = None \/ last_page > n THEN n ELSE last_page
    IN  IF first > last THEN <<>> ELSE [k \in 1..(last - first + 1) |-> first + k - 1]

\* s[a:b] of Python for a, b >= 0
PySlice(s, a, b) ==
    LET lo == IF a > Len(s) THEN Len(s) ELSE a
        hi == IF b > Len(s) THEN Len(s) ELSE b
    IN  IF lo >= hi THEN <<>> ELSE SubSeq(s, lo + 1, hi)

\* a slice that starts at index start_page
SliceFromStartPage(all, start_page, end_page) ==
    IF start_page # None \/ end_page # None
    THEN PySlice(all, IF start_page # None THEN start_page ELSE 0,
                 IF end_page # None THEN end_page ELSE Len(all))
    ELSE all

\* the final fallback's "if start_page or end_page" slice
SliceToRange(all, start_page, end_page) ==
    IF start_page # None \/ end_page # None
    THEN PySlice(all, IF start_page # None THEN start_page - 1 ELSE 0,
                 IF end_page # None THEN end_page ELSE Len(all))
    ELSE all

Attempt(tier, dpi, ranged, ok) == [tier |-> tier, dpi |-> dpi, ranged |-> ranged, ok |-> ok]

\* the call with its arguments, on a document of n pages; the initial
\* memory check
ConversionBegin(dpi, start_page, end_page, n, m) ==
    /\ pcConv = "idle"
    /\ CheckMemoryUsage(m)
    /\ conv_request' = [dpi |-> dpi, start_page |-> start_page, end_page |-> end_page,
                        pages |-> n]
    /\ pcConv' = "primary"
    /\ UNCHANGED <<conv_log, conv_images, conv_out>>

\* first attempt: the requested DPI with the page range
ConvertPrimary(ok) ==
    /\ pcConv = "primary"
    /\ conv_log' = Append(conv_log, Attempt("primary", conv_request.dpi, TRUE, ok))
    /\ IF ok
       THEN /\ conv_images' = PagesOfRange(conv_request.pages, conv_request.start_page,
                                           conv_request.end_page)
            /\ pcConv' = "converted"
       ELSE /\ pcConv' = "reduced"
            /\ UNCHANGED conv_images
    /\ UNCHANGED <<conv_request, conv_out>>

\* second attempt: DPI 200 with the page range
ConvertReducedDpi(ok) ==
    /\ pcConv = "reduced"
    /\ conv_log' = Append(conv_log, Attempt("reduced", 200, TRUE, ok))
    /\ IF ok
       THEN /\ conv_images' = PagesOfRange(conv_request.pages, conv_request.start_page,
                                           conv_request.end_page)
            /\ pcConv' = "converted"
       ELSE /\ pcConv' = "minimal"
            /\ UNCHANGED conv_images
    /\ UNCHANGED <<conv_request, conv_out>>

\* third attempt: DPI 150 on the whole document, then the slice; its failure
\* raises MemoryError
ConvertMinimal(ok) ==
    /\ pcConv = "minimal"
    /\ conv_log' = Append(conv_log, Attempt("minimal", 150, FALSE, ok))
    /\ IF ok
       THEN /\ conv_images' = SliceToRange(DocumentPages(conv_request.pages),
                                           conv_request.start_page, conv_request.end_page)
            /\ pcConv' = "converted"
            /\ UNCHANGED conv_out
       ELSE /\ conv_out' = [kind |-> "raised", value |-> "MemoryError"]
            /\ pcConv' = "raised"
            /\ UNCHANGED conv_images
    /\ UNCHANGED conv_request

\* "if total_pages == 0: return []", else on to the OCR of the batches
ConvertedPages ==
    /\ pcConv = "converted"
    /\ IF Len(conv_images) = 0
       THEN /\ conv_out' = [kind |-> "returned", value |-> <<>>]
            /\ pcConv' = "returned"
       ELSE /\ pcConv' = "ocr"
            /\ UNCHANGED conv_out
    /\ UNCHANGED <<conv_request, conv_log, conv_images>>


(***************************************************************************)
(* SpecConvert: one conversion of a document of up to MaxDocPages pages,   *)
(* with every page range up to one page past its end.                      *)
(***************************************************************************)
MaxDocPages == 3
DpiValues == {300, 400}
ConvertSamples == {120, MemoryThresholdHigh + 1}

ConvertSpecInit ==
    /\ ParseIdle /\ SeqIdle /\ MonitorInit /\ BatchIdle /\ SinkInit /\ CtxIdle /\ RunIdle
    /\ ConvIdle /\ TextIdle /\ HouseIdle /\ WindowIdle /\ JobIdle

OutsideConvert == <<parseVars, seqVars, batchVars, sinkVars, ctxVars, runVars, textVars, houseVars, windowVars, jobVars>>

ConvertCall ==
    /\ \E dpi \in DpiValues, n \in 0..MaxDocPages, start_page \in 0..(MaxDocPages + 1),
          end_page \in 0..(MaxDocPages + 1), m \in ConvertSamples :
           ConversionBegin(dpi, start_page, end_page, n, m)
    /\ UNCHANGED OutsideConvert

ConvertFirst ==
    /\ \E ok \in BOOLEAN : ConvertPrimary(ok)
    /\ UNCHANGED <<OutsideConvert, monVars>>

ConvertSecond ==
    /\ \E ok \in BOOLEAN : ConvertReducedDpi(ok)
    /\ UNCHANGED <<OutsideConvert, monVars>>

ConvertThird ==
    /\ \E ok \in BOOLEAN : ConvertMinimal(ok)
    /\ UNCHANGED <<OutsideConvert, monVars>>

ConvertCount == ConvertedPages /\ UNCHANGED <<OutsideConvert, monVars>>

ConvertNext ==
    \/ ConvertCall
    \/ ConvertFirst
    \/ ConvertSecond
    \/ ConvertThird
    \/ ConvertCount

SpecConvert == ConvertSpecInit /\ [][ConvertNext]_vars

TierOrder == <<"primary", "reduced", "minimal">>

\* the pages of the document that the request asks for
RequestedPages ==
    SelectSeq(DocumentPages(conv_request.pages),
              LAMBDA k : /\ conv_request.start_page = None \/ k >= conv_request.start_page
                         /\ conv_request.end_page = None \/ k <= conv_request.end_page)

AllTiersFailed == Len(conv_log) = 3 /\ \A i \in 1..3 : ~conv_log[i].ok

\* C14: the attempts are primary (requested DPI, with the range), reduced
\* DPI (with the range) and minimal (without the range) in this order, each
\* made only after the one before failed; the images kept are the requested
\* pages whichever attempt gave them; MemoryError leaves the call exactly
\* when all three failed; a conversion of zero pages returns [].
C14_ThreeTiers ==
    /\ Len(conv_log) <= 3
    /\ \A i \in 1..Len(conv_log) :
          /\ conv_log[i].tier = TierOrder[i]
          /\ i > 1 => ~conv_log[i - 1].ok
          /\ conv_log[i].ranged = (i < 3)
    /\ Len(conv_log) >= 1 => conv_log[1].dpi = conv_request.dpi
    /\ (pcConv = "raised") = AllTiersFailed
    /\ pcConv = "raised" => conv_out = [kind |-> "raised", value |-> "MemoryError"]
    /\ pcConv \in {"converted", "returned", "ocr"} =>
          /\ conv_log[Len(conv_log)].ok
          /\ conv_images = RequestedPages
    /\ pcConv = "returned" =>
          conv_images = <<>> /\ conv_out = [kind |-> "returned", value |-> <<>>]
    /\ pcConv = "ocr" => conv_images # <<>> /\ conv_out = <<>>

\* the third attempt, after two failures, gave the whole document and the
\* slice cut an inner range out of it
C14_Witness ==
    /\ pcConv = "ocr"
    /\ Len(conv_log) = 3
    /\ conv_request.start_page > 1
    /\ conv_request.end_page # None
    /\ conv_request.end_page < conv_request.pages
    /\ Len(conv_images) = 1


(***************************************************************************)
(* C15: what leaves a run.                                                 *)
(***************************************************************************)
\* C15: an exception leaves the run only when every conversion attempt
\* failed (MemoryError of the extraction step); otherwise the run takes
\* every page of the document and returns the count of persisted records.
C15_OnlyConversionPropagates ==
    /\ pcRun = "raised" => run_result = [kind |-> "raised", value |-> "MemoryError"]
    /\ pcRun = "returned" =>
          /\ run_i = Len(page_texts)
          /\ run_result = [kind |-> "returned", value |-> total_records_saved]

\* the run was left by the exception of initialize_excel_file
C15_StoreInitializationRaised ==
    /\ pcRun = "raised"
    /\ run_result = [kind |-> "raised", value |-> "store initialization error"]


(***************************************************************************)
(* C16, C17: failures inside the OCR of a batch.                           *)
(***************************************************************************)
\* the pages of the image batch handed to _process_image_batch
GivenPages == {i + 1 : i \in {j \in batch_pages : j < Len(images) /\ images[j + 1] # Cleared}}

ResultPages == {results[k][1] : k \in 1..Len(results)}

\* C16: a page whose OCR raised has the empty text and every other page of
\* the batch its own text; when the batch returns, results holds exactly one
\* (page, text) per page given, with one worker or several.
C16_PageFailureIsolated ==
    pcBatch = "ocr" =>
        /\ \A k \in 1..Len(results) :
              /\ results[k][1] \in GivenPages
              /\ results[k][2] = IF results[k][1] \in ocr_raised THEN EmptyText
                                 ELSE PageText(results[k][1])
        /\ \A k1, k2 \in 1..Len(results) : k1 # k2 => results[k1][1] # results[k2][1]
        /\ (pending = <<>> /\ running = {}) =>
              ResultPages = GivenPages /\ Len(results) = Cardinality(GivenPages)

\* a batch of several workers is about to return: the OCR of one page
\* raised, another page has its text
C16_Witness ==
    /\ pcBatch = "ocr"
    /\ pending = <<>> /\ running = {}
    /\ pool_size > 1
    /\ \E k1, k2 \in 1..Len(results) :
          /\ results[k1][1] \in ocr_raised /\ results[k1][2] = EmptyText
          /\ results[k2][1] \notin ocr_raised /\ results[k2][2] = PageText(results[k2][1])

BatchFailed == failed_ranges' # failed_ranges

\* C17: the pages of a batch that failed as a whole have the empty text;
\* the failure leaves the texts of the pages before the batch as they were
\* and moves batch_start to the end of the failed range, where the next
\* batch starts.
C17_BatchFailureIsolated ==
    /\ [](\A r \in failed_ranges : \A i \in r[1]..(r[2] - 1) : page_texts[i + 1] = EmptyText)
    /\ [][BatchFailed =>
            /\ failed_ranges' = failed_ranges \cup {<<batch_start, batch_end>>}
            /\ \A i \in 1..batch_start : page_texts'[i] = page_texts[i]
            /\ batch_start' = batch_end
            /\ pcBatch' = IF batch_end < total_pages THEN "form" ELSE "done"]_vars
    /\ [][pcBatch = "form" /\ pcBatch' = "ocr" =>
            /\ batch_start' = batch_start
            /\ batch_end' > batch_start
            /\ batch_pages' = batch_start..(batch_end' - 1)]_vars

\* the second batch failed after an earlier batch stored its texts, and the
\* batch after the failed range was formed
C17_Witness ==
    /\ pcBatch = "ocr"
    /\ \E r \in failed_ranges :
          /\ r[1] > 0
          /\ r[2] = batch_start
          /\ \A p \in 1..r[1] : page_texts[p] = PageText(p)
          /\ \A q \in (r[1] + 1)..r[2] : ocr_out[q] = PageText(q)


(***************************************************************************)
(* SpecBands: up to MaxChecks memory checks with samples below, on and     *)
(* above each threshold, interleaved with up to MaxReports batch reports.  *)
(***************************************************************************)
MaxChecks == 3
MaxReports == 3

BandSamples ==
    {120, 300 * 1024 * 1024,
     MemoryThresholdLow, MemoryThresholdLow + 1,
     MemoryThresholdHigh, MemoryThresholdHigh + 1,
     MemoryThresholdCritical, MemoryThresholdCritical + 1}
BandReportSamples == {120}
BandTimes == {5}

BandCheck ==
    /\ Len(memory_usage_history) < MaxChecks
    /\ MonitorCheck(BandSamples)

BandReport ==
    /\ Len(batch_performance_history) < MaxReports
    /\ MonitorReport(BandTimes, BandReportSamples)

BandNext == BandCheck \/ BandReport

SpecBands == MonitorSpecInit /\ [][BandNext]_vars

\* C18: after any monitor operations the batch size is between
\* min_batch_size and max_batch_size.
C18_WithinBounds ==
    current_batch_size >= MinBatchSize /\ current_batch_size <= MaxBatchSize

\* a step that is a memory check: the history took a sample
CheckStep == memory_usage_history' # memory_usage_history
LatestSample == memory_usage_history'[Len(memory_usage_history')]

\* C19: a check whose sample m is at or above critical halves the batch
\* size, one with high <= m < critical or low <= m < high takes 1 off it,
\* each result floored at min_batch_size; a sample equal to a threshold is
\* in the band that starts there.
C19_InclusiveBands ==
    [][CheckStep =>
         /\ LatestSample >= MemoryThresholdCritical =>
               current_batch_size' = Max2(MinBatchSize, current_batch_size \div 2)
         /\ (LatestSample >= MemoryThresholdHigh /\ LatestSample < MemoryThresholdCritical) =>
               current_batch_size' = Max2(MinBatchSize, current_batch_size - 1)
         /\ (LatestSample >= MemoryThresholdLow /\ LatestSample < MemoryThresholdHigh) =>
               current_batch_size' = Max2(MinBatchSize, current_batch_size - 1)]_vars

\* 70% of the low threshold
SeventyPercentOfLow == (MemoryThresholdLow \div 10) * 7

\* at least three samples, and the sum of the last three below three times
\* 70% of the low threshold
AverageWellBelow(hist) ==
    /\ Len(hist) >= 3
    /\ hist[Len(hist)] + hist[Len(hist) - 1] + hist[Len(hist) - 2] < 3 * SeventyPercentOfLow

FormSamples == {120, MemoryThresholdLow + 1, MemoryThresholdCritical + 1}
FormPoolSamples == {MemoryThresholdHigh + 1}
FormTimes == {200}
FormReportSamples == {120}

FormBegin ==
    /\ \E m \in FormSamples : BeginExtract(m)
    /\ UNCHANGED OutsideBatch

FormConvert ==
    /\ \E n \in 0..MaxPages : Convert(n)
    /\ UNCHANGED OutsideBatch

FormTake ==
    /\ \E m \in FormSamples, m2 \in FormPoolSamples : FormBatch(m, m2)
    /\ UNCHANGED OutsideBatch

FormStart == StartTask /\ UNCHANGED OutsideBatch

FormComplete ==
    /\ \E p \in 1..MaxPages, ok \in BOOLEAN : CompleteTask(p, ok)
    /\ UNCHANGED OutsideBatch

FormFinish ==
    /\ \E t \in FormTimes, m \in FormReportSamples : FinishBatch(t, m)
    /\ UNCHANGED OutsideBatch

FormFail ==
    /\ \E stored \in BOOLEAN : BatchFail(stored)
    /\ UNCHANGED OutsideBatch

FormNext ==
    \/ FormBegin
    \/ FormConvert
    \/ FormTake
    \/ FormStart
    \/ FormComplete
    \/ FormFinish
    \/ FormFail

SpecForm == BatchSpecInit /\ [][FormNext]_vars /\ WF_vars(FormNext)

\* C21: a batch in progress has min(B, pages remaining) pages, B being the
\* monitor's batch size left by the memory check that preceded the batch
\* (nothing changes B while the batch runs); the range of a batch in
\* progress does not change.
C21_BatchSizeAtFormation ==
    /\ [](pcBatch = "ocr" =>
             batch_end - batch_start = Min2(current_batch_size, total_pages - batch_start))
    /\ [][(pcBatch = "ocr" /\ pcBatch' = "ocr") =>
             /\ batch_start' = batch_start
             /\ batch_end' = batch_end
             /\ batch_pages' = batch_pages]_vars


\* the pages handed to OCR so far, in the batch in progress or before
HandedToOcr ==
    [k \in 1..(Len(completed) + Len(pending)) |->
        IF k <= Len(completed) THEN completed[k] ELSE pending[k - Len(completed)]]

\* C22: a batch in progress is a non-empty range that starts where the
\* batch before it ended, the ranges end at the last converted page, no page
\* is handed to OCR twice, the slots of every batch that is over are marked
\* consumed in a list that keeps its length, and no batch is formed or
\* finished while a page task of the batch before is pending or running.
C22_Partition ==
    /\ [](pcBatch = "ocr" =>
             /\ batch_start < batch_end /\ batch_end <= total_pages
             /\ batch_pages = batch_start..(batch_end - 1))
    /\ [](pcBatch = "done" => batch_start = total_pages)
    /\ [][(pcBatch \in {"form", "ocr"}) =>
             (batch_start' \in {batch_start, batch_end}
                 /\ (pcBatch = "form" => batch_start' = batch_start))]_vars
    /\ [](\A k1, k2 \in 1..Len(HandedToOcr) :
             k1 # k2 => HandedToOcr[k1] # HandedToOcr[k2])
    /\ [](\A p \in running : \A k \in 1..Len(HandedToOcr) : HandedToOcr[k] # p)
    /\ [](pcBatch \in {"form", "ocr", "done"} =>
             /\ Len(images) = total_pages
             /\ \A i \in 1..batch_start : images[i] = Cleared)
    /\ [](pcBatch \in {"form", "done"} => pending = <<>> /\ running = {})


\* C23: for every number of pages and every sequence of memory samples, page
\* failures and batch failures the batch loop ends with every page consumed;
\* the batch size is never below 1 and every iteration moves the batch start
\* forward by at least one page.
C23_LoopTerminates ==
    /\ <>(pcBatch = "done" /\ batch_start = total_pages)
    /\ [](current_batch_size >= 1)
    /\ [][(pcBatch = "ocr" /\ pcBatch' # "ocr") => batch_start' >= batch_start + 1]_vars

\* a document of the largest size finished at the smallest batch size, with a
\* failed page and a failed batch on the way
C23_Witness ==
    /\ pcBatch = "done"
    /\ total_pages = MaxPages
    /\ batch_start = total_pages
    /\ current_batch_size = 1
    /\ ocr_raised # {}
    /\ failed_ranges # {}


\* SpecPool: the batch loop with pool samples below, at and above the low and
\* high thresholds
PoolSamples == {120, MemoryThresholdLow, MemoryThresholdHigh, MemoryThresholdHigh + 1}

PoolTake ==
    /\ \E m \in FormReportSamples, m2 \in PoolSamples : FormBatch(m, m2)
    /\ UNCHANGED OutsideBatch

PoolNext ==
    \/ FormBegin
    \/ FormConvert
    \/ PoolTake
    \/ FormStart
    \/ FormComplete
    \/ FormFinish
    \/ FormFail

SpecPool == BatchSpecInit /\ [][PoolNext]_vars

\* C24: the pool of a batch has one worker when the sample is at or above the
\* high threshold, at most two when it is at or above the low threshold and
\* below the high one, at most the configured maximum otherwise, and in every
\* case at least one worker and no more workers than pages in the batch.
C24_WorkerCount ==
    pcBatch = "ocr" =>
        /\ (memory_mb >= MemoryThresholdHigh => pool_size = 1)
        /\ (memory_mb >= MemoryThresholdLow /\ memory_mb < MemoryThresholdHigh
                => pool_size <= 2)
        /\ pool_size <= PoolMaxWorkers
        /\ pool_size >= 1
        /\ pool_size <= Cardinality(batch_pages)


\* the history after an operation is the history before it with the newest
\* entry at the end, cut to its last limit entries
KeepsMostRecent(before, after, limit) ==
    /\ after # <<>>
    /\ after = LastN(Append(before, after[Len(after)]), limit)

\* C25: the memory-usage history never holds more than 10 samples and the
\* batch-performance history never more than 5 entries, and every monitor
\* operation leaves its history as the most recent entries in arrival order,
\* evicting the oldest first.
C25_BoundedHistories ==
    /\ [](/\ Len(memory_usage_history) <= MemoryHistoryLimit
          /\ Len(batch_performance_history) <= PerformanceHistoryLimit)
    /\ [][PressureCheck =>
            KeepsMostRecent(memory_usage_history, memory_usage_history',
                            MemoryHistoryLimit)]_vars
    /\ [][PressureReport =>
            KeepsMostRecent(batch_performance_history, batch_performance_history',
                            PerformanceHistoryLimit)]_vars

\* both histories full, each with different entries at its two ends, after
\* more operations than the histories hold
C25_Witness ==
    /\ Len(memory_usage_history) = MemoryHistoryLimit
    /\ memory_usage_history[1] # memory_usage_history[MemoryHistoryLimit]
    /\ Len(batch_performance_history) = PerformanceHistoryLimit
    /\ batch_performance_history[1].batch_size
           # batch_performance_history[PerformanceHistoryLimit].batch_size
    /\ batch_performance_history[1].batch_size # InitialBatchSize


\* the places (line, start offset) at which the patterns matched on a page
PlacesOf(lines) ==
    UNION {{<<i, lines[i][k].start>> : k \in 1..Len(lines[i])} : i \in 1..Len(lines)}

\* the earliest pattern that matched at a start offset of a line
EarliestPattern(found, start) ==
    SetMin({found[k].pattern : k \in {j \in 1..Len(found) : found[j].start = start}})

\* what the entry loop takes of a line: one match per start offset, the one
\* of the earliest pattern
OnePerStart(found) ==
    LET kept == LineMatches(found)
    IN  /\ \A j, k \in 1..Len(kept) : j # k => kept[j].start # kept[k].start
        /\ {kept[k].start : k \in 1..Len(kept)} = {found[k].start : k \in 1..Len(found)}
        /\ \A k \in 1..Len(kept) :
              /\ \E j \in 1..Len(found) : found[j] = kept[k]
              /\ kept[k].pattern = EarliestPattern(found, kept[k].start)

\* C26: of a line the entry loop takes at most one candidate per start
\* offset, the match of the earliest pattern when several patterns match at
\* the same start, and every candidate taken is counted once in the page's
\* total of candidates.
C26_OneCandidatePerStart ==
    (pcRun = "loop" /\ pcParse = "parsed") =>
        LET lines == page_texts[run_i].lines
        IN  /\ \A i \in 1..Len(lines) : OnePerStart(lines[i])
            /\ Len(text) = Cardinality(PlacesOf(lines))
            /\ page_stats.found = Cardinality(PlacesOf(lines))

\* a parsed page with a line on which two patterns matched at the same start
C26_Witness ==
    /\ pcRun = "loop"
    /\ pcParse = "parsed"
    /\ \E i \in 1..Len(page_texts[run_i].lines) :
          \E j, k \in 1..Len(page_texts[run_i].lines[i]) :
              /\ page_texts[run_i].lines[i][j].start = page_texts[run_i].lines[i][k].start
              /\ page_texts[run_i].lines[i][j].pattern < page_texts[run_i].lines[i][k].pattern
    /\ page_stats.found = 3



(***************************************************************************)
(* _process_text_batch: the pages of a text batch are parsed by the tasks  *)
(* of a thread pool.  Each task runs parse_voter_info on the shared        *)
(* object: it appends the page's serial numbers to all_sr_numbers as it    *)
(* goes (list.append, one step each) and ends with three "+=" on the       *)
(* shared counters, each a read of the attribute followed by a write of    *)
(* the sum, with no lock around them.                                      *)
(***************************************************************************)
\* what parse_voter_info holds in its locals when the entry loop has ended
LocalResult(ms) ==
    LET r == ParseResult(ms)
    IN  [voters |-> r.voters, found |-> r.found, valid |-> r.valid,
         rejected |-> r.rejected, sr |-> r.sr, to_append |-> r.sr]

\* the locals of a call that raised before it counted anything
NoResult ==
    [voters |-> <<>>, found |-> 0, valid |-> 0, rejected |-> 0, sr |-> <<>>,
     to_append |-> <<>>]

InPool(pc) == pc \notin {"queued", "returned", "collected"}

\* ThreadPoolExecutor(max_workers=min(len(text_batch), self.max_workers))
TextPoolSize == Min2(Len(text_batch), PoolMaxWorkers)

AfterAppends(out) == IF out.to_append = <<>> THEN "load_found" ELSE "append"

TextFrame == <<parseVars, seqVars, monVars, batchVars, sinkVars, ctxVars, runVars, convVars,
               houseVars, windowVars, jobVars>>

\* the call: one future per page
ProcessTextBatch ==
    /\ pcText = "called"
    /\ task_pc' = [p \in 1..Len(text_batch) |-> "queued"]
    /\ task_out' = [p \in 1..Len(text_batch) |-> NoResult]
    /\ task_loaded' = [p \in 1..Len(text_batch) |-> 0]
    /\ all_voters' = <<>>
    /\ pcText' = "pool"
    /\ UNCHANGED <<text_batch, TextFrame>>

\* a pool thread takes page p and runs the entry loop up to its first append
TaskParse(p) ==
    /\ pcText = "pool"
    /\ task_pc[p] = "queued"
    /\ Cardinality({q \in 1..Len(text_batch) : InPool(task_pc[q])}) < TextPoolSize
    /\ \E out \in {LocalResult(text_batch[p])} :
          /\ task_out' = [task_out EXCEPT ![p] = out]
          /\ task_pc' = [task_pc EXCEPT ![p] = AfterAppends(out)]
    /\ UNCHANGED <<text_batch, task_loaded, all_voters, pcText, TextFrame>>

\* parse_voter_info raises in the task: process_single_text returns (page, [])
TaskRaises(p) ==
    /\ pcText = "pool"
    /\ task_pc[p] = "queued"
    /\ Cardinality({q \in 1..Len(text_batch) : InPool(task_pc[q])}) < TextPoolSize
    /\ task_pc' = [task_pc EXCEPT ![p] = "returned"]
    /\ UNCHANGED <<text_batch, task_out, task_loaded, all_voters, pcText, TextFrame>>

\* self.all_sr_numbers.append(sr_no_int) of task p
TaskAppendSerial(p) ==
    /\ pcText = "pool"
    /\ task_pc[p] = "append"
    /\ all_sr_numbers' = Append(all_sr_numbers, Head(task_out[p].to_append))
    /\ task_out' = [task_out EXCEPT ![p].to_append = Tail(@)]
    /\ task_pc' = [task_pc EXCEPT ![p] = AfterAppends(task_out'[p])]
    /\ UNCHANGED <<text_batch, task_loaded, all_voters, pcText>>
    /\ UNCHANGED <<seq_result, pcSeq>>
    /\ UNCHANGED <<parseVars, monVars, batchVars, sinkVars, ctxVars, runVars, convVars,
                   houseVars, windowVars, jobVars>>

\* the read of a "+=": the task loads the attribute
TaskLoad(p) ==
    /\ pcText = "pool"
    /\ task_pc[p] \in {"load_found", "load_valid", "load_rejected"}
    /\ task_loaded' = [task_loaded EXCEPT ![p] =
          CASE task_pc[p] = "load_found" -> total_patterns_found
            [] task_pc[p] = "load_valid" -> total_valid_ids
            [] task_pc[p] = "load_rejected" -> total_rejected_ids]
    /\ task_pc' = [task_pc EXCEPT ![p] =
          CASE task_pc[p] = "load_found" -> "store_found"
            [] task_pc[p] = "load_valid" -> "store_valid"
            [] task_pc[p] = "load_rejected" -> "store_rejected"]
    /\ UNCHANGED <<text_batch, task_out, all_voters, pcText, TextFrame>>

\* the write of a "+=": the task stores what it loaded plus its local count
TaskStore(p) ==
    /\ pcText = "pool"
    /\ task_pc[p] \in {"store_found", "store_valid", "store_rejected"}
    /\ total_patterns_found' =
          IF task_pc[p] = "store_found" THEN task_loaded[p] + task_out[p].found
          ELSE total_patterns_found
    /\ total_valid_ids' =
          IF task_pc[p] = "store_valid" THEN task_loaded[p] + task_out[p].valid
          ELSE total_valid_ids
    /\ total_rejected_ids' =
          IF task_pc[p] = "store_rejected" THEN task_loaded[p] + task_out[p].rejected
          ELSE total_rejected_ids
    /\ task_pc' = [task_pc EXCEPT ![p] =
          CASE task_pc[p] = "store_found" -> "load_valid"
            [] task_pc[p] = "store_valid" -> "load_rejected"
            [] task_pc[p] = "store_rejected" -> "returned"]
    /\ UNCHANGED <<text, voters, page_stats, pcParse>>
    /\ UNCHANGED <<text_batch, task_out, task_loaded, all_voters, pcText>>
    /\ UNCHANGED <<seqVars, monVars, batchVars, sinkVars, ctxVars, runVars, convVars,
                   houseVars, windowVars, jobVars>>

\* as_completed hands a finished future to the coordinator: all_voters.extend
TaskCollect(p) ==
    /\ pcText = "pool"
    /\ task_pc[p] = "returned"
    /\ all_voters' = all_voters \o task_out[p].voters
    /\ task_pc' = [task_pc EXCEPT ![p] = "collected"]
    /\ UNCHANGED <<text_batch, task_out, task_loaded, pcText, TextFrame>>

\* every future was collected: the pool is left and all_voters returned
TextBatchReturn ==
    /\ pcText = "pool"
    /\ \A p \in 1..Len(text_batch) : task_pc[p] = "collected"
    /\ pcText' = "returned"
    /\ UNCHANGED <<text_batch, task_pc, task_out, task_loaded, all_voters, TextFrame>>

(***************************************************************************)
(* SpecTextBatch: one _process_text_batch call on a new object, over       *)
(* batches of 1..MaxTextPages pages.                                       *)
(***************************************************************************)
MaxTextPages == 2

\* a page with one accepted candidate and its serial, a page with a rejected
\* and an accepted candidate, a page with an accepted candidate and no code
TextBatchPages ==
    {<<Match(<<"S", "M", "F", "1", "2", "3", "4", "5", "6", "7">>, <<217, 134, 10>>)>>,
     <<Match(<<"L", "J", "Z", "L", "L", "L", "1", "2", "3", "4">>, <<>>),
       Match(<<"S", "M", "F", "1", "2", "3", "4", "5", "6", "7">>, <<217, 134, 12>>)>>,
     <<Match(<<"S", "M", "F", "1", "2", "3", "4", "5", "6", "7">>, <<>>)>>}

TextBatchInit ==
    /\ ParseIdle /\ SeqIdle /\ MonitorInit /\ BatchIdle /\ SinkInit /\ CtxIdle /\ RunIdle
    /\ ConvIdle /\ HouseIdle /\ WindowIdle /\ JobIdle
    /\ text_batch \in UNION {[1..n -> TextBatchPages] : n \in 1..MaxTextPages}
    /\ task_pc = <<>>
    /\ task_out = <<>>
    /\ task_loaded = <<>>
    /\ all_voters = <<>>
    /\ pcText = "called"

TextParse == \E p \in 1..Len(text_batch) : TaskParse(p)
TextRaise == \E p \in 1..Len(text_batch) : TaskRaises(p)
TextAppend == \E p \in 1..Len(text_batch) : TaskAppendSerial(p)
TextLoad == \E p \in 1..Len(text_batch) : TaskLoad(p)
TextStore == \E p \in 1..Len(text_batch) : TaskStore(p)
TextCollect == \E p \in 1..Len(text_batch) : TaskCollect(p)

TextBatchNext ==
    \/ ProcessTextBatch
    \/ TextParse
    \/ TextRaise
    \/ TextAppend
    \/ TextLoad
    \/ TextStore
    \/ TextCollect
    \/ TextBatchReturn

SpecTextBatch == TextBatchInit /\ [][TextBatchNext]_vars

RECURSIVE SumOfTasks(_, _)
\* the sum of a local count over the first n tasks
SumOfTasks(field, n) ==
    IF n = 0 THEN 0 ELSE task_out[n][field] + SumOfTasks(field, n - 1)

\* the number of times x occurs in s
Occurrences(s, x) == Cardinality({k \in 1..Len(s) : s[k] = x})

RECURSIVE SumOverPages(_, _)
\* how often the serial x occurs on the first n pages
SumOverPages(x, n) ==
    IF n = 0 THEN 0 ELSE Occurrences(task_out[n].sr, x) + SumOverPages(x, n - 1)

\* the serial collection holds the serials of every page, as often as the
\* pages hold them
SerialsOfEveryPage ==
    \A x \in {all_sr_numbers[k] : k \in 1..Len(all_sr_numbers)}
           \cup UNION {{task_out[p].sr[k] : k \in 1..Len(task_out[p].sr)} :
                          p \in 1..Len(task_out)} :
        Occurrences(all_sr_numbers, x)
            = SumOverPages(x, Len(task_out))

\* C27: when every task of a text batch has finished, the three run-level
\* counters equal the sums of the pages' local counts and the serial
\* collection holds every page's serial numbers, whatever the interleaving.
C27_StatisticsSafe ==
    pcText = "returned" =>
        /\ total_patterns_found = SumOfTasks("found", Len(task_out))
        /\ total_valid_ids = SumOfTasks("valid", Len(task_out))
        /\ total_rejected_ids = SumOfTasks("rejected", Len(task_out))
        /\ SerialsOfEveryPage


\* C28: the sink lock is owned exactly while an append is between taking it
\* and leaving its with block (load, append, save, count, or the except
\* branch with its backup attempt); it is free while the run converts, reads
\* or parses pages, and an append that waits for it finds it free, also
\* after an append that failed or whose backup write failed.
C28_LockScopedToAppend ==
    /\ \A t \in Threads : (lock = t) <=> InCriticalSection(t)
    /\ lock # NoThread => (pcRun = "loop" /\ pcParse = "saving")
    /\ tpc[MainThread] = "wait" => LockFree(MainThread)

\* the append of the second page holds the lock after the append of the first
\* page failed and its backup write failed too
C28_Witness ==
    /\ run_i = 2
    /\ tpc[MainThread] = "load"
    /\ lock = MainThread
    /\ MainThread \in tfailed
    /\ backup = <<>>
    /\ excel = <<>>


\* no append stands between its save and its count
NoCountPending == \A t \in Threads : tpc[t] # "count"

\* what the step of thread t that ends its try body does to the store and to
\* the counter
AppendEffect(t) ==
    /\ (tpc[t] = "save" /\ tpc'[t] = "count") => Len(excel') = Len(excel) + Len(targ[t])
    /\ (tpc[t] = "count" /\ tpc'[t] = "exit") =>
           total_records_saved' = total_records_saved + Len(targ[t])
    /\ (tpc'[t] = "except" \/ tpc[t] = "except") =>
           /\ excel' = excel
           /\ total_records_saved' = total_records_saved

\* C29: whenever no append is between its save and its count,
\* total_records_saved is the number of data rows of the primary store; a
\* successful append adds the number of its records to the store and then to
\* the counter, and a failed append changes neither.
C29_SavedCountIsRowCount ==
    /\ [](NoCountPending => total_records_saved = Len(excel))
    /\ [][\A t \in Threads : AppendEffect(t)]_vars

\* every worker returned, an append failed and another saved two records
C29_Witness ==
    /\ AllWorkersDone
    /\ tfailed # {}
    /\ \E t \in Workers \ tfailed : Len(targ[t]) = 2
    /\ total_records_saved = Len(excel)
    /\ Len(excel) >= 3



(***************************************************************************)
(* The house/serial code of an entry: the search of the rest of the line   *)
(* (lines 747-752), the split into the three sub-fields and the record     *)
(* (764-792), and the serial number kept for the sequence check (808-814). *)
(* Text is a sequence of characters.                                       *)
(***************************************************************************)
IsDigitChar(c) == \E d \in 0..9 : c = DigitChar(d)

RECURSIVE DigitRun(_, _)
\* the length of the longest run of digits of s that starts at position i
DigitRun(s, i) ==
    IF i > Len(s) \/ ~IsDigitChar(s[i]) THEN 0 ELSE 1 + DigitRun(s, i + 1)

\* the end of the match of \d+/\d+/\d+ that starts at position i, or 0
CodeEndAt(s, i) ==
    LET a == DigitRun(s, i)
        b == DigitRun(s, i + a + 1)
        c == DigitRun(s, i + a + b + 2)
    IN  IF /\ a >= 1
           /\ i + a <= Len(s) /\ s[i + a] = "/"
           /\ b >= 1
           /\ i + a + b + 1 <= Len(s) /\ s[i + a + b + 1] = "/"
           /\ c >= 1
        THEN i + a + b + c + 1
        ELSE 0

\* a search that returns the match with the rightmost start
SearchLastHouseCode(s) ==
    LET starts == {i \in 1..Len(s) : CodeEndAt(s, i) # 0}
    IN  IF starts = {} THEN <<>>
        ELSE SubSeq(s, SetMax(starts), CodeEndAt(s, SetMax(starts)))

\* re.search(r'(\d+/\d+/\d+)', remaining_line): group(1) of the leftmost
\* match, '' when there is none
SearchHouseCode(s) ==
    LET starts == {i \in 1..Len(s) : CodeEndAt(s, i) # 0}
    IN  IF starts = {} THEN <<>>
        ELSE SubSeq(s, SetMin(starts), CodeEndAt(s, SetMin(starts)))

RECURSIVE SplitSlash(_)
\* s.split('/')
SplitSlash(s) ==
    LET cuts == {i \in 1..Len(s) : s[i] = "/"}
    IN  IF cuts = {} THEN <<s>>
        ELSE <<SubSeq(s, 1, SetMin(cuts) - 1)>>
                 \o SplitSlash(SubSeq(s, SetMin(cuts) + 1, Len(s)))

ValueError == 0 - 1

RECURSIVE PyInt(_)
\* int(s) of a text of decimal digits; anything else raises ValueError
PyInt(s) ==
    IF s = <<>> \/ \E i \in 1..Len(s) : ~IsDigitChar(s[i]) THEN ValueError
    ELSE IF Len(s) = 1 THEN DigitOf(s[1])
    ELSE PyInt(SubSeq(s, 1, Len(s) - 1)) * 10 + DigitOf(s[Len(s)])

\* the code fields of the record of an entry whose raw code is code
CodeFields(code) ==
    LET parts == IF code # <<>> THEN SplitSlash(code) ELSE <<>>
        split == Len(parts) = 3
        matadaar_sangh_2 == IF split THEN parts[1] ELSE <<>>
        yadi_number == IF split THEN parts[2] ELSE <<>>
        yadi_sr_no == IF split THEN parts[3] ELSE <<>>
    IN  [SrNo |-> yadi_sr_no, ColumnX |-> code, MatadaarSangh2 |-> matadaar_sangh_2,
         YadiNumber |-> yadi_number, YadiSrNo |-> yadi_sr_no]

HouseFrame == <<parseVars, monVars, batchVars, sinkVars, ctxVars, runVars, convVars, textVars,
                windowVars, jobVars>>

\* lines 748-752
FindHouseCode ==
    /\ pcHouse = "search"
    /\ entry_house_num' = SearchHouseCode(remaining_line)
    /\ pcHouse' = "split"
    /\ UNCHANGED <<remaining_line, entry_voter, seqVars, HouseFrame>>

\* lines 764-792
BuildEntryRecord ==
    /\ pcHouse = "split"
    /\ entry_voter' = CodeFields(entry_house_num)
    /\ pcHouse' = "track"
    /\ UNCHANGED <<remaining_line, entry_house_num, seqVars, HouseFrame>>

\* lines 808-814
TrackSerial ==
    /\ pcHouse = "track"
    /\ all_sr_numbers' =
          IF entry_voter.YadiSrNo # <<>> /\ PyInt(entry_voter.YadiSrNo) # ValueError
          THEN Append(all_sr_numbers, PyInt(entry_voter.YadiSrNo))
          ELSE all_sr_numbers
    /\ pcHouse' = "done"
    /\ UNCHANGED <<remaining_line, entry_house_num, entry_voter, seq_result, pcSeq, HouseFrame>>

(***************************************************************************)
(* SpecHouse: the entry of one accepted ID, for every rest of line of up   *)
(* to MaxLineLen characters over digits, the slash and a space.            *)
(***************************************************************************)
MaxLineLen == 6
LineChars == {"0", "7", "/", " "}

HouseInit ==
    /\ ParseIdle /\ SeqIdle /\ MonitorInit /\ BatchIdle /\ SinkInit /\ CtxIdle /\ RunIdle
    /\ ConvIdle /\ TextIdle /\ WindowIdle /\ JobIdle
    /\ remaining_line \in UNION {[1..n -> LineChars] : n \in 0..MaxLineLen}
    /\ entry_house_num = <<>>
    /\ entry_voter = <<>>
    /\ pcHouse = "search"

HouseNext == FindHouseCode \/ BuildEntryRecord \/ TrackSerial

SpecHouse == HouseInit /\ [][HouseNext]_vars

\* s is digits, a slash, digits, a slash, digits
IsThreePartCode(s) ==
    \E i, j \in 1..Len(s) :
        /\ 1 < i /\ i + 1 < j /\ j < Len(s)
        /\ \A k \in 1..Len(s) : IF k \in {i, j} THEN s[k] = "/" ELSE IsDigitChar(s[k])

\* the three-part codes of s, as <<start, end>>
CodesIn(s) ==
    {pos \in (1..Len(s)) \X (1..Len(s)) :
        pos[1] <= pos[2] /\ IsThreePartCode(SubSeq(s, pos[1], pos[2]))}

\* code is the three-part code of s with the leftmost start, read to its end
IsFirstCode(code, s) ==
    \E pos \in CodesIn(s) :
        /\ code = SubSeq(s, pos[1], pos[2])
        /\ \A other \in CodesIn(s) :
              \/ pos[1] < other[1]
              \/ pos[1] = other[1] /\ other[2] <= pos[2]

\* the text without its leading zeros, one zero kept for a text of zeros
RECURSIVE WithoutLeadingZeros(_)
WithoutLeadingZeros(s) ==
    IF Len(s) > 1 /\ s[1] = "0" THEN WithoutLeadingZeros(Tail(s)) ELSE s

\* C30: the raw code of an entry is the first three-part slash-delimited
\* code of the rest of its line, or empty when the rest holds none; with a
\* code the three sub-fields joined by "/" are the raw code, the serial
\* field is the third part, and the third part's number is what the serial
\* collection receives; without a code the sub-fields and the serial field
\* are empty and the collection receives nothing.
C30_HouseCodeSplit ==
    /\ pcHouse \in {"split", "track", "done"} =>
          IF CodesIn(remaining_line) = {}
          THEN entry_house_num = <<>>
          ELSE IsFirstCode(entry_house_num, remaining_line)
    /\ pcHouse \in {"track", "done"} =>
          /\ entry_voter.ColumnX = entry_house_num
          /\ entry_voter.SrNo = entry_voter.YadiSrNo
          /\ IF entry_house_num = <<>>
             THEN /\ entry_voter.MatadaarSangh2 = <<>>
                  /\ entry_voter.YadiNumber = <<>>
                  /\ entry_voter.YadiSrNo = <<>>
             ELSE /\ entry_voter.MatadaarSangh2 \o <<"/">> \o entry_voter.YadiNumber
                         \o <<"/">> \o entry_voter.YadiSrNo = entry_house_num
                  /\ \A k \in 1..Len(entry_voter.YadiSrNo) :
                        IsDigitChar(entry_voter.YadiSrNo[k])
    /\ pcHouse = "done" =>
          IF entry_house_num = <<>>
          THEN all_sr_numbers = <<>>
          ELSE /\ Len(all_sr_numbers) = 1
               /\ all_sr_numbers[1] \in Nat
               /\ DigitSeq(all_sr_numbers[1]) = WithoutLeadingZeros(entry_voter.YadiSrNo)

\* a rest of line that is one code whose third part has a leading zero: the
\* code is split and its third part is recorded as 7
C30_Witness ==
    /\ pcHouse = "done"
    /\ remaining_line = <<"0", "/", "7", "/", "0", "7">>
    /\ entry_house_num = remaining_line
    /\ entry_voter.YadiSrNo = <<"0", "7">>
    /\ all_sr_numbers = <<7>>



(***************************************************************************)
(* The context window of an entry (lines 794-805): the second loop of      *)
(* parse_voter_info cuts lines[start_line:end_line] around the line of     *)
(* each entry.  A line of the page stands for its own index.               *)
(***************************************************************************)
LinesBefore == 2
LinesAfter == 8

\* max(0, line_num - 2)
StartLine(line_num) == Max2(0, line_num - LinesBefore)

\* min(len(lines), line_num + 8)
EndLine(page, line_num) == Min2(Len(page), line_num + LinesAfter)

\* lines[start_line:end_line] for the entry idx (from 1) of entries
ContextLines(page, entries, idx) ==
    LET line_num == entries[idx]
        first == StartLine(line_num)
        start_line == IF idx > 1 /\ entries[idx - 1] = line_num
                      THEN StartLine(line_num) ELSE first
    IN  PySlice(page, start_line, EndLine(page, line_num))

WindowFrame == <<parseVars, seqVars, monVars, batchVars, sinkVars, ctxVars, runVars, convVars,
                 textVars, houseVars, jobVars>>

\* one turn of the loop over voter_entries
CutContext ==
    /\ pcWindow = "loop"
    /\ entry_idx < Len(entry_line_nums)
    /\ context_lines' = ContextLines(page_lines, entry_line_nums, entry_idx + 1)
    /\ entry_idx' = entry_idx + 1
    /\ UNCHANGED <<page_lines, entry_line_nums, pcWindow, WindowFrame>>

\* the loop has taken every entry
EntriesDone ==
    /\ pcWindow = "loop"
    /\ entry_idx = Len(entry_line_nums)
    /\ pcWindow' = "done"
    /\ UNCHANGED <<page_lines, entry_line_nums, entry_idx, context_lines, WindowFrame>>

(***************************************************************************)
(* SpecWindow: pages of up to MaxPageLines lines with one or two entries,  *)
(* on the same line or on different lines.                                 *)
(***************************************************************************)
MaxPageLines == 11

WindowInit ==
    /\ ParseIdle /\ SeqIdle /\ MonitorInit /\ BatchIdle /\ SinkInit /\ CtxIdle /\ RunIdle
    /\ ConvIdle /\ TextIdle /\ HouseIdle /\ JobIdle
    /\ \E n \in 1..MaxPageLines :
          /\ page_lines = [k \in 1..n |-> k - 1]
          /\ entry_line_nums \in
                {<<a>> : a \in 0..(n - 1)}
                   \cup {e \in (0..(n - 1)) \X (0..(n - 1)) : e[1] <= e[2]}
    /\ entry_idx = 0
    /\ context_lines = <<>>
    /\ pcWindow = "loop"

WindowNext == CutContext \/ EntriesDone

SpecWindow == WindowInit /\ [][WindowNext]_vars

\* the lines a through b of the page, both included
LinesThrough(page, a, b) == [k \in 1..(b - a + 1) |-> page[a + k]]

\* C31: the window cut for an entry on line n of a page of L lines is the
\* lines max(0, n - 2) through min(L - 1, n + 8), both included, and two
\* entries on the same line get the same window.
C31_ContextWindow ==
    /\ [](entry_idx >= 1 =>
            LET n == entry_line_nums[entry_idx]
            IN  context_lines = LinesThrough(page_lines, Max2(0, n - 2),
                                             Min2(Len(page_lines) - 1, n + 8)))
    /\ [][(entry_idx >= 1 /\ entry_idx' = entry_idx + 1
              /\ entry_line_nums[entry_idx'] = entry_line_nums[entry_idx])
            => context_lines' = context_lines]_vars


\* no line of the window carries the field's keywords, or the first line
\* that does has too few occurrences for the column
FieldShort(window, label, column) ==
    LET carrying == {k \in 1..Len(window) : window[k].label = label}
    IN  carrying = {} \/ Len(window[SetMin(carrying)].matches) <= column

\* the record of an accepted match: a field that falls short is empty, every
\* other field is read
MissesLeftEmpty(m, voter) ==
    LET column == VoterColumn(m.context, m.house_num)
    IN  /\ FieldShort(m.context, "name", column) <=> voter.Name = NoValue
        /\ FieldShort(m.context, "father", column) <=> voter.FatherName = NoValue
        /\ FieldShort(m.context, "house", column) <=> voter.HouseNo = NoValue
        /\ FieldShort(m.context, "age_gender", column) <=> voter.Age = NoValue
        /\ FieldShort(m.context, "age_gender", column) => voter.Gender = NoValue

\* C32: a field whose line has fewer occurrences than the column needs, or
\* whose keywords are on no line of the window, is left empty; the other
\* fields of the record are read, every accepted match still yields its
\* record, and the records of the page are appended to the store as they are.
C32_FieldMissLeavesEmpty ==
    /\ [](pcParse \in {"parsed", "saving"} =>
            LET accepted == SelectSeq(text, AcceptedMatch)
            IN  /\ Len(voters) = Len(accepted)
                /\ \A i \in 1..Len(voters) : MissesLeftEmpty(accepted[i], voters[i]))
    /\ [][(pcParse = "saving" /\ tpc[MainThread] = "save" /\ tpc'[MainThread] = "count")
            => excel' = excel \o RowsOf(voters)]_vars

\* the run returned with the row of a record whose four field lines all have
\* one occurrence where the third column was asked for, and the row of a
\* record whose age was read while its name fell short
C32_Witness ==
    /\ pcRun = "returned"
    /\ \E i \in 1..Len(excel) :
          /\ excel[i][5] = <<217, 134, 12>>
          /\ \A k \in {3, 4, 6, 7, 8} : excel[i][k] = NoValue
    /\ \E i \in 1..Len(excel) :
          /\ excel[i][3] = NoValue
          /\ excel[i][7] # NoValue


\* the candidates of a page that validation turns down
Malformed(ms) == {i \in 1..Len(ms) : ~ AcceptedMatch(ms[i])}

\* C33: over the pages of a run parsed one after the other, the run-level
\* counters satisfy found = accepted + rejected in every state, none of them
\* ever decreases, a call returns as many records as it accepted IDs, and a
\* call on a page with malformed candidates returns, adding their number to
\* the rejected counter and the rest to the accepted counter.
C33_CountersAddUp ==
    /\ [](/\ total_patterns_found = total_valid_ids + total_rejected_ids
          /\ pcParse \in {"parsed", "saving"} => Len(voters) = page_stats.valid)
    /\ [][/\ total_patterns_found' >= total_patterns_found
          /\ total_valid_ids' >= total_valid_ids
          /\ total_rejected_ids' >= total_rejected_ids]_vars
    /\ [][(pcParse = "ready" /\ pcParse' = "parsed") =>
             (/\ total_rejected_ids' = total_rejected_ids + Cardinality(Malformed(text))
              /\ total_valid_ids' = total_valid_ids + Len(text) - Cardinality(Malformed(text))
              /\ total_patterns_found' = total_patterns_found + Len(text)
              /\ Len(voters') = Len(text) - Cardinality(Malformed(text)))]_vars

\* a second page with a malformed candidate was parsed after a first page
\* with one: two rejected, and accepted IDs besides
C33_Witness ==
    /\ pcRun = "loop"
    /\ run_i = 2
    /\ pcParse = "parsed"
    /\ Malformed(text) # {}
    /\ total_rejected_ids = 2
    /\ total_valid_ids >= 3
    /\ total_patterns_found = total_valid_ids + 2


\* 3 uppercase ASCII letters followed by 7 ASCII digits
WellFormed(id) ==
    /\ Len(id) = 10
    /\ \A k \in 1..3 : id[k] \in UpperLetters
    /\ \A k \in 4..10 : id[k] \in AsciiDigits

\* the place among the records of the page's i-th candidate, when accepted
RecordOf(i) == Cardinality({j \in 1..i : AcceptedMatch(text[j])})

\* C34: a candidate of 3 uppercase letters and 7 digits is accepted and its
\* record carries exactly these 10 characters, and normalizing the ID of a
\* record a second time yields the same ID.
C34_WellFormedUnchanged ==
    pcParse \in {"parsed", "saving", "done"} =>
        /\ \A i \in 1..Len(text) :
              WellFormed(text[i].raw) =>
                  /\ AcceptedMatch(text[i])
                  /\ voters[RecordOf(i)].VoterID = text[i].raw
        /\ \A i \in 1..Len(voters) : AcceptedId(voters[i].VoterID) = voters[i].VoterID


(***************************************************************************)
(* The job of the web application: process_pdf, process_pdf_background,    *)
(* get_data and download_file of app.py and app_production.py, for one     *)
(* uploaded job.  A background thread is followed from one write of the    *)
(* shared status entry or of the output file to the next; its OCR work     *)
(* between two writes is the outcome it draws.  The handler process_pdf    *)
(* answers 404 without any write once the uploaded PDF is gone.            *)
(***************************************************************************)
JobFrame == <<parseVars, seqVars, monVars, batchVars, sinkVars, ctxVars, runVars, convVars,
              textVars, houseVars, windowVars>>

\* the progress the thread writes first (app.py 217, app_production.py 271)
StartProgress(app) == IF app = "app" THEN 10 ELSE 5

\* the progress written once the processor object exists (app.py 234,
\* app_production.py 288)
CreatedProgress(app) == IF app = "app" THEN 20 ELSE 10

\* the progress written after initialize_excel_file (app.py 241,
\* app_production.py 295)
InitializedProgress(app) == IF app = "app" THEN 30 ELSE 15

\* 50 + int((i / total_pages) * 40)
PageProgress(i, total) == 50 + ((i * 40) \div total)

\* the progress after page i of the loop: app.py reports every page that did
\* not raise, app_production.py leaves the loop to process_pdf_incrementally
AfterPage(app, i, total, progress) ==
    IF app = "app" THEN PageProgress(i, total) ELSE progress

\* process_pdf: the guard on the uploaded PDF, the status writes and the
\* start of a new thread
ProcessPdf ==
    /\ pdf_exists
    /\ \E r \in JobRuns :
          /\ bg[r].pc = "idle"
          /\ \A q \in 1..(r - 1) : bg[q].pc # "idle"
          /\ bg' = [bg EXCEPT ![r].pc = "started"]
    /\ job_status' = "processing"
    /\ job_progress' = 10
    /\ UNCHANGED <<job_app, job_output_path, pdf_exists, out_rows, served, JobFrame>>

\* "Update status" at the top of process_pdf_background
BgBegin(r) ==
    /\ bg[r].pc = "started"
    /\ job_status' = "processing"
    /\ job_progress' = StartProgress(job_app)
    /\ bg' = [bg EXCEPT ![r].pc = "create", ![r].wrote = "processing"]
    /\ UNCHANGED <<job_app, job_output_path, pdf_exists, out_rows, served, JobFrame>>

\* VoterListOCR(...) and the progress written after it
BgCreate(r) ==
    /\ bg[r].pc = "create"
    /\ job_progress' = CreatedProgress(job_app)
    /\ bg' = [bg EXCEPT ![r].pc = "init"]
    /\ UNCHANGED <<job_app, job_status, job_output_path, pdf_exists, out_rows, served, JobFrame>>

\* ocr.initialize_excel_file(): a workbook with the header row replaces the
\* file at output_path, or wb.save raises
BgInitExcel(r, saved) ==
    /\ bg[r].pc = "init"
    /\ IF saved
       THEN /\ out_rows' = 0
            /\ job_progress' = InitializedProgress(job_app)
            /\ bg' = [bg EXCEPT ![r].pc = IF job_app = "app" THEN "extract" ELSE "announce"]
       ELSE /\ bg' = [bg EXCEPT ![r].pc = "except"]
            /\ UNCHANGED <<out_rows, job_progress>>
    /\ UNCHANGED <<job_app, job_status, job_output_path, pdf_exists, served, JobFrame>>

\* app_production.py: "Processing PDF ..." with progress 20
BgAnnounce(r) ==
    /\ bg[r].pc = "announce"
    /\ job_progress' = 20
    /\ bg' = [bg EXCEPT ![r].pc = "extract"]
    /\ UNCHANGED <<job_app, job_status, job_output_path, pdf_exists, out_rows, served, JobFrame>>

\* the text extraction: n page texts, or the conversion fails on every tier
\* and MemoryError leaves the thread's try block.  In app_production.py the
\* extraction is inside process_pdf_incrementally, which first writes the
\* header-only file again.
BgExtract(r, saved, converted, n) ==
    /\ bg[r].pc = "extract"
    /\ IF job_app = "app"
       THEN /\ UNCHANGED out_rows
            /\ IF converted
               THEN /\ job_progress' = 50
                    /\ bg' = [bg EXCEPT ![r].pc = "loop", ![r].i = 0, ![r].total = n]
               ELSE /\ bg' = [bg EXCEPT ![r].pc = "except"]
                    /\ UNCHANGED job_progress
       ELSE /\ UNCHANGED job_progress
            /\ IF saved
               THEN /\ out_rows' = 0
                    /\ bg' = IF converted
                             THEN [bg EXCEPT ![r].pc = "loop", ![r].i = 0, ![r].total = n]
                             ELSE [bg EXCEPT ![r].pc = "except"]
               ELSE /\ bg' = [bg EXCEPT ![r].pc = "except"]
                    /\ UNCHANGED out_rows
    /\ UNCHANGED <<job_app, job_status, job_output_path, pdf_exists, served, JobFrame>>

\* a page of the loop up to the first write: parse_voter_info raises and the
\* loop continues, or it returns no record, or it returns records and
\* append_voters_to_excel loads the workbook
BgTakePage(r, outcome) ==
    /\ bg[r].pc = "loop"
    /\ bg[r].i < bg[r].total
    /\ CASE outcome = "raises" ->
              /\ bg' = [bg EXCEPT ![r].i = @ + 1, ![r].raised = @ + 1]
              /\ UNCHANGED job_progress
         [] outcome = "none" ->
              /\ bg' = [bg EXCEPT ![r].i = @ + 1]
              /\ job_progress' = AfterPage(job_app, bg[r].i + 1, bg[r].total, job_progress)
         [] outcome = "voters" ->
              /\ bg' = [bg EXCEPT ![r].pc = "append", ![r].wb = out_rows]
              /\ UNCHANGED job_progress
    /\ UNCHANGED <<job_app, job_status, job_output_path, pdf_exists, out_rows, served, JobFrame>>

\* wb.save of append_voters_to_excel (or its failure, which the method
\* swallows) and wb.close(), then the progress of the page
BgSavePage(r, saved) ==
    /\ bg[r].pc = "append"
    /\ out_rows' = IF saved THEN bg[r].wb + 1 ELSE out_rows
    /\ job_progress' = AfterPage(job_app, bg[r].i + 1, bg[r].total, job_progress)
    /\ bg' = [bg EXCEPT ![r].pc = "loop", ![r].i = @ + 1, ![r].wb = 0]
    /\ UNCHANGED <<job_app, job_status, job_output_path, pdf_exists, served, JobFrame>>

\* app_production.py: process_pdf_incrementally returned, progress 90
BgReturned(r) ==
    /\ job_app = "production"
    /\ bg[r].pc = "loop"
    /\ bg[r].i = bg[r].total
    /\ job_progress' = 90
    /\ bg' = [bg EXCEPT ![r].pc = "finalize"]
    /\ UNCHANGED <<job_app, job_status, job_output_path, pdf_exists, out_rows, served, JobFrame>>

\* "Finalize": status 'completed'
BgCompleted(r) ==
    /\ \/ job_app = "app" /\ bg[r].pc = "loop" /\ bg[r].i = bg[r].total
       \/ bg[r].pc = "finalize"
    /\ job_status' = "completed"
    /\ bg' = [bg EXCEPT ![r].pc = "fin_progress", ![r].wrote = "completed"]
    /\ UNCHANGED <<job_app, job_progress, job_output_path, pdf_exists, out_rows, served, JobFrame>>

\* progress 100
BgHundred(r) ==
    /\ bg[r].pc = "fin_progress"
    /\ job_progress' = 100
    /\ bg' = [bg EXCEPT ![r].pc = "fin_path"]
    /\ UNCHANGED <<job_app, job_status, job_output_path, pdf_exists, out_rows, served, JobFrame>>

\* output_file and output_path are recorded
BgRecordPath(r) ==
    /\ bg[r].pc = "fin_path"
    /\ job_output_path' = TRUE
    /\ bg' = [bg EXCEPT ![r].pc = "cleanup"]
    /\ UNCHANGED <<job_app, job_status, job_progress, pdf_exists, out_rows, served, JobFrame>>

\* os.remove(pdf_path) inside "try: ... except: pass"; the thread returns
BgCleanup(r, removed) ==
    /\ bg[r].pc = "cleanup"
    /\ pdf_exists' = IF removed THEN FALSE ELSE pdf_exists
    /\ bg' = [bg EXCEPT ![r].pc = "returned"]
    /\ UNCHANGED <<job_app, job_status, job_progress, job_output_path, out_rows, served, JobFrame>>

\* an except branch that only logs: the thread returns and the status stays
BgExceptLogsOnly(r) ==
    /\ bg[r].pc = "except"
    /\ bg' = [bg EXCEPT ![r].pc = "returned"]
    /\ UNCHANGED <<job_app, job_status, job_progress, job_output_path, pdf_exists, out_rows,
                   served, JobFrame>>

\* the except branches of process_pdf_background: status 'error'; the thread
\* returns
BgExcept(r) ==
    /\ bg[r].pc = "except"
    /\ job_status' = "error"
    /\ bg' = [bg EXCEPT ![r].pc = "returned", ![r].wrote = "error"]
    /\ UNCHANGED <<job_app, job_progress, job_output_path, pdf_exists, out_rows, served, JobFrame>>

\* the answer of get_data and of download_file: 400 unless the job is
\* completed with its output path recorded, 404 without the file, 200 with
\* the file's rows, 500 when reading it fails
Answer(status, has_path, rows, readable) ==
    IF status # "completed" \/ ~ has_path THEN [code |-> 400, rows |-> NoFile]
    ELSE IF rows = NoFile THEN [code |-> 404, rows |-> NoFile]
    ELSE IF readable THEN [code |-> 200, rows |-> rows]
    ELSE [code |-> 500, rows |-> NoFile]

MaxServes == 1

\* get_data or download_file
Serve(op, readable) ==
    /\ Len(served) < MaxServes
    /\ \E a \in {Answer(job_status, job_output_path, out_rows, readable)} :
          served' = Append(served, [op |-> op, code |-> a.code, rows |-> a.rows])
    /\ UNCHANGED <<job_app, job_status, job_progress, job_output_path, pdf_exists, out_rows,
                   bg, JobFrame>>

MaxJobPages == 2

JobInit ==
    /\ ParseIdle /\ SeqIdle /\ MonitorInit /\ BatchIdle /\ SinkInit /\ CtxIdle /\ RunIdle
    /\ ConvIdle /\ TextIdle /\ HouseIdle /\ WindowIdle
    /\ job_app \in {"app", "production"}
    /\ JobUploaded

JobProcess == ProcessPdf
JobBegin == \E r \in JobRuns : BgBegin(r)
JobCreate == \E r \in JobRuns : BgCreate(r)
JobInitExcel == \E r \in JobRuns, saved \in BOOLEAN : BgInitExcel(r, saved)
JobAnnounce == \E r \in JobRuns : BgAnnounce(r)
JobExtract ==
    \E r \in JobRuns, saved \in BOOLEAN, converted \in BOOLEAN, n \in 0..MaxJobPages :
        BgExtract(r, saved, converted, n)
JobTakePage == \E r \in JobRuns, outcome \in {"raises", "none", "voters"} : BgTakePage(r, outcome)
JobSavePage == \E r \in JobRuns, saved \in BOOLEAN : BgSavePage(r, saved)
JobReturned == \E r \in JobRuns : BgReturned(r)
JobCompleted == \E r \in JobRuns : BgCompleted(r)
JobHundred == \E r \in JobRuns : BgHundred(r)
JobRecordPath == \E r \in JobRuns : BgRecordPath(r)
JobCleanup == \E r \in JobRuns, removed \in BOOLEAN : BgCleanup(r, removed)
JobExcept == \E r \in JobRuns : BgExcept(r)
JobServe == \E op \in {"data", "download"}, readable \in BOOLEAN : Serve(op, readable)

JobNext ==
    \/ JobProcess
    \/ JobBegin
    \/ JobCreate
    \/ JobInitExcel
    \/ JobAnnounce
    \/ JobExtract
    \/ JobTakePage
    \/ JobSavePage
    \/ JobReturned
    \/ JobCompleted
    \/ JobHundred
    \/ JobRecordPath
    \/ JobCleanup
    \/ JobExcept
    \/ JobServe

SpecJob == JobInit /\ [][JobNext]_vars


\* a step of the background thread r
BgStep(r) ==
    \/ BgBegin(r)
    \/ BgCreate(r)
    \/ \E saved \in BOOLEAN : BgInitExcel(r, saved)
    \/ BgAnnounce(r)
    \/ \E saved \in BOOLEAN, converted \in BOOLEAN, n \in 0..MaxJobPages :
          BgExtract(r, saved, converted, n)
    \/ \E outcome \in {"raises", "none", "voters"} : BgTakePage(r, outcome)
    \/ \E saved \in BOOLEAN : BgSavePage(r, saved)
    \/ BgReturned(r)
    \/ BgCompleted(r)
    \/ BgHundred(r)
    \/ BgRecordPath(r)
    \/ BgCleanup(r, TRUE)
    \/ BgCleanup(r, FALSE)
    \/ BgExcept(r)

JobLiveNext ==
    \/ JobProcess
    \/ JobBegin
    \/ JobCreate
    \/ JobInitExcel
    \/ JobAnnounce
    \/ JobExtract
    \/ JobTakePage
    \/ JobSavePage
    \/ JobReturned
    \/ JobCompleted
    \/ JobHundred
    \/ JobRecordPath
    \/ JobCleanup
    \/ JobExcept

\* the threads of the job are daemon threads of a running server: each one
\* that can take a step takes it
SpecJobLive == JobInit /\ [][JobLiveNext]_vars /\ \A r \in JobRuns : WF_vars(BgStep(r))

Active(r) == bg[r].pc \notin {"idle", "returned"}

\* C35: every background thread started for the job returns, and the last
\* status it wrote is 'completed' or 'error'; once no started thread is
\* left, the job's status is 'completed' or 'error' and not 'processing'; a
\* thread whose conversion or store initialization failed writes 'error'; a
\* thread that is in its page loop leaves it only towards 'completed',
\* whatever a page did.
C35_RunEnds ==
    /\ \A r \in JobRuns : [](bg[r].pc # "idle" => <>(bg[r].pc = "returned"))
    /\ [](\A r \in JobRuns :
             bg[r].pc = "returned" => bg[r].wrote \in {"completed", "error"})
    /\ []((\E r \in JobRuns : bg[r].pc = "returned") /\ (\A r \in JobRuns : ~ Active(r))
            => job_status \in {"completed", "error"})
    /\ [][\A r \in JobRuns :
            /\ (bg[r].pc = "except" /\ bg'[r].pc # "except")
                 => (job_status' = "error" /\ bg'[r].pc = "returned")
            /\ (bg[r].pc \in {"loop", "append"}) =>
                 bg'[r].pc \in {"loop", "append", "finalize", "fin_progress"}
            /\ (bg[r].pc \in {"loop", "finalize"} /\ bg'[r].pc = "fin_progress")
                 => job_status' = "completed"]_vars

\* the job is completed by a thread that returned after the first of its
\* two pages raised and the second was saved, and another thread returned
\* after writing 'error'
C35_Witness ==
    /\ job_status = "completed"
    /\ \E r \in JobRuns :
          /\ bg[r].pc = "returned"
          /\ bg[r].wrote = "completed"
          /\ bg[r].total = 2
          /\ bg[r].raised = 1
          /\ out_rows = 1
    /\ \E r \in JobRuns : bg[r].pc = "returned" /\ bg[r].wrote = "error"


\* the places of process_pdf_background up to the last append of the thread
BeforeLastAppend == {"started", "create", "init", "announce", "extract", "loop", "append"}

\* C36: at most one background thread of the job is active at any time, a
\* process request for a job whose status is 'processing' starts no thread,
\* and no two threads are inside their append to the output file together.
C36_OneRunPerJob ==
    /\ [](Cardinality({r \in JobRuns : Active(r)}) <= 1)
    /\ [](Cardinality({r \in JobRuns : bg[r].pc = "append"}) <= 1)
    /\ [][job_status = "processing" =>
             \A r \in JobRuns : ~ (bg[r].pc = "idle" /\ bg'[r].pc # "idle")]_vars

\* exactly one process request has been accepted for the job
OneRun == Cardinality({r \in JobRuns : bg[r].pc # "idle"}) = 1

\* C37: while the job has had one process request, its progress never
\* decreases from the acceptance of the request to 'completed', and the
\* progress is 100 exactly when the status is 'completed'.
C37_ProgressMonotone ==
    /\ [][(OneRun /\ OneRun' /\ job_status = "processing") =>
             job_progress' >= job_progress]_vars
    /\ [](OneRun => (job_progress = 100 <=> job_status = "completed"))

\* C38: get_data and download_file answer with the output only when the
\* status is 'completed' and the output path is recorded, and at every such
\* answer each thread started for the job is past its last append.
C38_ServedAfterLastAppend ==
    [][(Len(served') > Len(served) /\ served'[Len(served')].code = 200) =>
          (/\ job_status = "completed"
           /\ job_output_path
           /\ \A r \in JobRuns : bg[r].pc \notin BeforeLastAppend)]_vars


====
